---- MODULE Spec2Model ----
\* A model of the au item store: the Project index (src/au/src/item.rs), the
\* automerge document it mirrors, the mutation engine (with_item,
\* without_item, with_updated_item), the value codec (decode.rs) and the
\* reconstruction decode_project.
EXTENDS Integers, Sequences, FiniteSets, TLC

VARIABLES index, doc, ret, script, args, result, changes, heap

vars == <<index, doc, ret, script, args, result, changes, heap>>

\* ---------------------------------------------------------------------------
\* Bounds of the model
\* ---------------------------------------------------------------------------

\* longest list of edits handed to one with_updated_item call
MaxEdits == 2

\* ---------------------------------------------------------------------------
\* Option<T>, strings
\* ---------------------------------------------------------------------------

\* Option<T>: None is the empty sequence, Some(x) the one-element sequence
None == <<>>

Some(x) == <<x>>

IsSome(o) == o # <<>>

Unwrap(o) == o[1]

\* the characters of the strings used as content types (str::starts_with
\* works on them)
Chars(s) ==
  CASE s = "text/plain" -> <<"t", "e", "x", "t", "/", "p", "l", "a", "i", "n">>
    [] s = "text/markdown" -> <<"t", "e", "x", "t", "/", "m", "a", "r", "k", "d", "o", "w", "n">>
    [] s = "text/" -> <<"t", "e", "x", "t", "/">>
    [] s = "text" -> <<"t", "e", "x", "t">>
    [] s = "application/octet-stream" -> <<"a", "p", "p", "l", "i", "c", "a", "t", "i", "o", "n", "/", "o", "c", "t", "e", "t", "-", "s", "t", "r", "e", "a", "m">>
    [] OTHER -> <<>>

starts_with(s, prefix) ==
  /\ Len(Chars(s)) >= Len(Chars(prefix))
  /\ SubSeq(Chars(s), 1, Len(Chars(prefix))) = Chars(prefix)

DOC_ITEMS_NODE == "items"

DOC_ITEM_ID_NODE == "id"

DOC_ITEM_PARENT_NODE == "parent"

DOC_ITEM_AT_NODE == "at"

DOC_ITEM_CONTENT_NODE == "content"

DOC_ITEM_CONTENT_TYPE_NODE == "content_type"

DOC_ITEM_RANK_NODE == "rank"

DOC_ITEM_CLASS_NODE == "class"

CONTENT_TYPE_DEFAULT == "text/plain"

CONTENT_TYPE_TEXT_PREFIX == "text/"

\* ---------------------------------------------------------------------------
\* Bytes and UTF-8 (std::str::from_utf8)
\* ---------------------------------------------------------------------------

IsCont(b, i) == i <= Len(b) /\ b[i] \in 128..191

\* the byte length of the well-formed UTF-8 character that starts b, or 0
\* when b does not start with one
Utf8CharLen(b) ==
  IF b = <<>> THEN 0
  ELSE LET h == b[1]
       IN CASE h < 128 -> 1
            [] h \in 194..223 -> IF IsCont(b, 2) THEN 2 ELSE 0
            [] h = 224 -> IF Len(b) >= 2 /\ b[2] \in 160..191 /\ IsCont(b, 3) THEN 3 ELSE 0
            [] h \in 225..236 \/ h \in 238..239 -> IF IsCont(b, 2) /\ IsCont(b, 3) THEN 3 ELSE 0
            [] h = 237 -> IF Len(b) >= 2 /\ b[2] \in 128..159 /\ IsCont(b, 3) THEN 3 ELSE 0
            [] h = 240 -> IF Len(b) >= 2 /\ b[2] \in 144..191 /\ IsCont(b, 3) /\ IsCont(b, 4) THEN 4 ELSE 0
            [] h \in 241..243 -> IF IsCont(b, 2) /\ IsCont(b, 3) /\ IsCont(b, 4) THEN 4 ELSE 0
            [] h = 244 -> IF Len(b) >= 2 /\ b[2] \in 128..143 /\ IsCont(b, 3) /\ IsCont(b, 4) THEN 4 ELSE 0
            [] OTHER -> 0

RECURSIVE from_utf8_ok(_)
\* std::str::from_utf8(b).is_ok()
from_utf8_ok(b) ==
  IF b = <<>> THEN TRUE
  ELSE LET n == Utf8CharLen(b)
       IN n > 0 /\ from_utf8_ok(SubSeq(b, n + 1, Len(b)))

\* ---------------------------------------------------------------------------
\* The automerge document: a tree of maps, text objects and scalars
\* ---------------------------------------------------------------------------

MapVal(f) == [kind |-> "map", v |-> f]

TextVal(b) == [kind |-> "text", v |-> b]

StrVal(s) == [kind |-> "str", v |-> s]

IntVal(n) == [kind |-> "int", v |-> n]

TimestampVal(ms) == [kind |-> "timestamp", v |-> ms]

BytesVal(b) == [kind |-> "bytes", v |-> b]

BoolVal(b) == [kind |-> "bool", v |-> b]

\* an empty list object
ListVal == [kind |-> "list", v |-> <<>>]

IsObject(val) == val.kind \in {"map", "text", "list"}

\* ReadDoc::get on a map object
get(m, k) == IF k \in DOMAIN m THEN Some(m[k]) ELSE None

\* Transactable::put / put_object on a map object
put(m, k, val) == (k :> val) @@ m

\* Transactable::delete on a map object (a missing key is not an error)
delete(m, k) == [x \in DOMAIN m \ {k} |-> m[x]]

\* result of a fallible call: Ok(val) or Err(err)
Ok(val) == [ok |-> TRUE, val |-> Some(val), err |-> None]

Err(e) == [ok |-> FALSE, val |-> None, err |-> Some(e)]

AuError(kind, key, msg) == [kind |-> kind, key |-> key, msg |-> msg, inner |-> None]

NestedError(key, e) == [kind |-> "NestedError", key |-> key, msg |-> "", inner |-> Some(e)]

\* find_items_node that takes a root without items for an empty collection
find_items_node_missing_is_empty(d) ==
  LET got == get(d, DOC_ITEMS_NODE)
  IN IF got = None THEN Ok(<<>>)
     ELSE IF Unwrap(got).kind = "map" THEN Ok(Unwrap(got).v)
     ELSE Err(AuError("IncorrectType", DOC_ITEMS_NODE, "map"))

find_items_node(d) ==
  LET got == get(d, DOC_ITEMS_NODE)
  IN IF got = None THEN Err(AuError("NoSuchKey", DOC_ITEMS_NODE, ""))
     ELSE IF Unwrap(got).kind = "map" THEN Ok(Unwrap(got).v)
     ELSE Err(AuError("IncorrectType", DOC_ITEMS_NODE, "map"))

\* match find_items_node { Ok(n) => n, Err(_) => put_object(ROOT, "items", Map) }
ensure_items_node(d) ==
  IF find_items_node(d).ok THEN d ELSE put(d, DOC_ITEMS_NODE, MapVal(<<>>))

ItemsOf(d) == d[DOC_ITEMS_NODE].v

\* put_object(items_node, id, ObjType::Map): a fresh, empty map under id
PutItemNode(d, id) == put(d, DOC_ITEMS_NODE, MapVal(put(ItemsOf(d), id, MapVal(<<>>))))

\* put / put_object through the handle of the item's map
PutField(d, id, k, val) ==
  put(d, DOC_ITEMS_NODE, MapVal(put(ItemsOf(d), id, MapVal(put(ItemsOf(d)[id].v, k, val)))))

\* delete through the handle of the item's map
DeleteField(d, id, k) ==
  put(d, DOC_ITEMS_NODE, MapVal(put(ItemsOf(d), id, MapVal(delete(ItemsOf(d)[id].v, k)))))

\* ---------------------------------------------------------------------------
\* Timestamps
\* ---------------------------------------------------------------------------

\* item.at is an OffsetDateTime, modelled as its unix_timestamp_nanos()
NANOS_PER_MILLI == 1000000

\* Rust integer division truncates toward zero
TruncDiv(a, b) == IF a >= 0 THEN a \div b ELSE -((-a) \div b)

\* (item.at.unix_timestamp_nanos() / 1_000_000) as i64
at_millis(at) == TruncDiv(at, NANOS_PER_MILLI)

\* ---------------------------------------------------------------------------
\* Item, ItemUpdate, results of the mutation engine
\* ---------------------------------------------------------------------------

ItemDefault ==
  [id |-> "", at |-> 0, class |-> None, content_type |-> CONTENT_TYPE_DEFAULT,
   content |-> <<>>, rank |-> 0, parent |-> None]

\* an ItemUpdate: the variant t and the payload of that variant (the other
\* fields are unused)
NoUpdate == [t |-> "", parent |-> None, rank |-> 0, class |-> None, content_type |-> "", content |-> <<>>]

UpdParent(p) == [NoUpdate EXCEPT !.t = "Parent", !.parent = p]

UpdRank(r) == [NoUpdate EXCEPT !.t = "Rank", !.rank = r]

UpdClass(c) == [NoUpdate EXCEPT !.t = "Class", !.class = c]

UpdContent(ct, b) == [NoUpdate EXCEPT !.t = "Content", !.content_type = ct, !.content = b]

\* what a call returns to its caller
RetOk(op) == [op |-> op, kind |-> "Ok", key |-> "", msg |-> ""]

RetErr(op, kind, key, msg) == [op |-> op, kind |-> kind, key |-> key, msg |-> msg]

\* the state a call leaves behind, with what it returned
Res(ix, d, r) == [index |-> ix, doc |-> d, ret |-> r]

\* ---------------------------------------------------------------------------
\* Project::has_children
\* ---------------------------------------------------------------------------

\* has_children with only the (None, None) arm of the match
has_children_only_roots(ix, parent) ==
  parent = None /\ \E k \in DOMAIN ix : ix[k].parent = None

\* has_children without the (None, None) arm of the match
has_children_no_roots(ix, parent) ==
  parent # None /\ \E k \in DOMAIN ix : ix[k].parent = parent

has_children(ix, parent) ==
  \E k \in DOMAIN ix : ix[k].parent = parent

\* ---------------------------------------------------------------------------
\* Project::with_item
\* ---------------------------------------------------------------------------

\* the end of with_item with an index that holds the new item alone
with_item_tail_clears_index(ix, d, item) ==
  LET d1 == IF IsSome(item.parent)
            THEN PutField(d, item.id, DOC_ITEM_PARENT_NODE, StrVal(Unwrap(item.parent)))
            ELSE d
      d2 == IF IsSome(item.class)
            THEN PutField(d1, item.id, DOC_ITEM_CLASS_NODE, StrVal(Unwrap(item.class)))
            ELSE d1
  IN Res((item.id :> item), d2, RetOk("with_item"))

\* the optional fields and the index insert that end with_item
with_item_tail(ix, d, item) ==
  LET d1 == IF IsSome(item.parent)
            THEN PutField(d, item.id, DOC_ITEM_PARENT_NODE, StrVal(Unwrap(item.parent)))
            ELSE d
      d2 == IF IsSome(item.class)
            THEN PutField(d1, item.id, DOC_ITEM_CLASS_NODE, StrVal(Unwrap(item.class)))
            ELSE d1
  IN Res(put(ix, item.id, item), d2, RetOk("with_item"))

\* with_item_precondition without the empty-id arm
with_item_precondition_empty_id(ix, item) ==
  IF item.id \in DOMAIN ix
  THEN Some(RetErr("with_item", "InvalidField", DOC_ITEM_ID_NODE, "duplicate key"))
  ELSE IF IsSome(item.parent) /\ Unwrap(item.parent) \notin DOMAIN ix
  THEN Some(RetErr("with_item", "InvalidField", DOC_ITEM_PARENT_NODE, "does not exist"))
  ELSE None

\* with_item_precondition without the duplicate-key arm
with_item_precondition_no_duplicate(ix, item) ==
  IF item.id = ""
  THEN Some(RetErr("with_item", "InvalidField", DOC_ITEM_ID_NODE, "empty"))
  ELSE IF IsSome(item.parent) /\ Unwrap(item.parent) \notin DOMAIN ix
  THEN Some(RetErr("with_item", "InvalidField", DOC_ITEM_PARENT_NODE, "does not exist"))
  ELSE None

\* with_item_precondition that lets an item name itself as its parent
with_item_precondition_self_parent(ix, item) ==
  IF item.id = ""
  THEN Some(RetErr("with_item", "InvalidField", DOC_ITEM_ID_NODE, "empty"))
  ELSE IF item.id \in DOMAIN ix
  THEN Some(RetErr("with_item", "InvalidField", DOC_ITEM_ID_NODE, "duplicate key"))
  ELSE IF IsSome(item.parent) /\ Unwrap(item.parent) \notin DOMAIN ix \cup {item.id}
  THEN Some(RetErr("with_item", "InvalidField", DOC_ITEM_PARENT_NODE, "does not exist"))
  ELSE None

\* the validation that opens with_item: the error it returns, or None
with_item_precondition(ix, item) ==
  IF item.id = ""
  THEN Some(RetErr("with_item", "InvalidField", DOC_ITEM_ID_NODE, "empty"))
  ELSE IF item.id \in DOMAIN ix
  THEN Some(RetErr("with_item", "InvalidField", DOC_ITEM_ID_NODE, "duplicate key"))
  ELSE IF IsSome(item.parent) /\ Unwrap(item.parent) \notin DOMAIN ix
  THEN Some(RetErr("with_item", "InvalidField", DOC_ITEM_PARENT_NODE, "does not exist"))
  ELSE None

with_item(ix, d, item) ==
  IF IsSome(with_item_precondition(ix, item))
  THEN Res(ix, d, Unwrap(with_item_precondition(ix, item)))
  ELSE
    LET d0 == ensure_items_node(d)
        d1 == PutItemNode(d0, item.id)
        d2 == PutField(d1, item.id, DOC_ITEM_AT_NODE, TimestampVal(at_millis(item.at)))
        d3 == PutField(d2, item.id, DOC_ITEM_CONTENT_TYPE_NODE, StrVal(item.content_type))
        d4 == PutField(d3, item.id, DOC_ITEM_RANK_NODE, IntVal(item.rank))
    IN IF starts_with(item.content_type, CONTENT_TYPE_TEXT_PREFIX)
       THEN LET d5 == PutField(d4, item.id, DOC_ITEM_CONTENT_NODE, TextVal(<<>>))
            IN IF ~from_utf8_ok(item.content)
               THEN Res(ix, d5, RetErr("with_item", "Utf8Error", "", "invalid utf-8"))
               ELSE with_item_tail(ix, PutField(d5, item.id, DOC_ITEM_CONTENT_NODE, TextVal(item.content)), item)
       ELSE with_item_tail(ix, PutField(d4, item.id, DOC_ITEM_CONTENT_NODE, BytesVal(item.content)), item)

\* ---------------------------------------------------------------------------
\* Project::without_item
\* ---------------------------------------------------------------------------

\* without_item that removes the item from the index only
without_item_index_only(ix, d, id) ==
  IF id \notin DOMAIN ix
  THEN Res(ix, d, RetErr("without_item", "NoSuchKey", id, ""))
  ELSE IF has_children(ix, Some(id))
  THEN Res(ix, d, RetErr("without_item", "InvalidOperation", id, "has children"))
  ELSE Res(delete(ix, id), ensure_items_node(d), RetOk("without_item"))

\* without_item that looks for children before it looks for the item
without_item_children_first(ix, d, id) ==
  IF has_children(ix, Some(id))
  THEN Res(ix, d, RetErr("without_item", "InvalidOperation", id, "has children"))
  ELSE IF id \notin DOMAIN ix
  THEN Res(ix, d, RetErr("without_item", "NoSuchKey", id, ""))
  ELSE
    LET d0 == ensure_items_node(d)
        d1 == put(d0, DOC_ITEMS_NODE, MapVal(delete(ItemsOf(d0), id)))
    IN Res(delete(ix, id), d1, RetOk("without_item"))

without_item(ix, d, id) ==
  IF id \notin DOMAIN ix
  THEN Res(ix, d, RetErr("without_item", "NoSuchKey", id, ""))
  ELSE IF has_children(ix, Some(id))
  THEN Res(ix, d, RetErr("without_item", "InvalidOperation", id, "has children"))
  ELSE
    LET d0 == ensure_items_node(d)
        d1 == put(d0, DOC_ITEMS_NODE, MapVal(delete(ItemsOf(d0), id)))
    IN Res(delete(ix, id), d1, RetOk("without_item"))

\* ---------------------------------------------------------------------------
\* Text diff engine: common_prefix, common_suffix
\* ---------------------------------------------------------------------------

\* chunks_exact(128) / rchunks_exact(128)
BLOCK == 128

Min(a, b) == IF a <= b THEN a ELSE b

MaxOf(S) == CHOOSE x \in S : \A y \in S : y <= x

\* zip(..).take_while(eq).count() is the largest k such that the first k
\* zipped pairs are equal
common_prefix(a, b) ==
  LET nblocks == Min(Len(a) \div BLOCK, Len(b) \div BLOCK)
      SameBlock(j) == SubSeq(a, (j - 1) * BLOCK + 1, j * BLOCK) = SubSeq(b, (j - 1) * BLOCK + 1, j * BLOCK)
      offset == MaxOf({k \in 0..nblocks : \A j \in 1..k : SameBlock(j)}) * BLOCK
      SameByte(j) == a[offset + j] = b[offset + j]
  IN offset + MaxOf({k \in 0..Min(Len(a) - offset, Len(b) - offset) : \A j \in 1..k : SameByte(j)})

\* common_suffix whose blocks are cut from the front (chunks_exact) while the
\* byte scan still runs from the back
common_suffix_front_blocks(a, b) ==
  LET nblocks == Min(Len(a) \div BLOCK, Len(b) \div BLOCK)
      SameBlock(j) == SubSeq(a, (j - 1) * BLOCK + 1, j * BLOCK) = SubSeq(b, (j - 1) * BLOCK + 1, j * BLOCK)
      offset == MaxOf({k \in 0..nblocks : \A j \in 1..k : SameBlock(j)}) * BLOCK
      SameByte(j) == a[Len(a) - offset - j + 1] = b[Len(b) - offset - j + 1]
  IN offset + MaxOf({k \in 0..Min(Len(a) - offset, Len(b) - offset) : \A j \in 1..k : SameByte(j)})

common_suffix(a, b) ==
  LET nblocks == Min(Len(a) \div BLOCK, Len(b) \div BLOCK)
      SameBlock(j) == SubSeq(a, Len(a) - j * BLOCK + 1, Len(a) - (j - 1) * BLOCK)
                        = SubSeq(b, Len(b) - j * BLOCK + 1, Len(b) - (j - 1) * BLOCK)
      offset == MaxOf({k \in 0..nblocks : \A j \in 1..k : SameBlock(j)}) * BLOCK
      SameByte(j) == a[Len(a) - offset - j + 1] = b[Len(b) - offset - j + 1]
  IN offset + MaxOf({k \in 0..Min(Len(a) - offset, Len(b) - offset) : \A j \in 1..k : SameByte(j)})

\* ---------------------------------------------------------------------------
\* str slicing and the text object of the document
\* ---------------------------------------------------------------------------

\* str::is_char_boundary(i), i a byte offset
is_char_boundary(b, i) ==
  \/ i = 0
  \/ i = Len(b)
  \/ (i < Len(b) /\ b[i + 1] \notin 128..191)

\* &s[from..to] on a str panics unless both ends are character boundaries
slice_ok(b, from, to) ==
  from <= to /\ to <= Len(b) /\ is_char_boundary(b, from) /\ is_char_boundary(b, to)

\* the bytes of &s[from..to]
slice(b, from, to) == SubSeq(b, from + 1, to)

RECURSIVE Utf8Chars(_)
\* the characters of a well-formed UTF-8 string, each as its bytes
Utf8Chars(b) ==
  IF b = <<>> THEN <<>>
  ELSE LET n == Utf8CharLen(b)
       IN <<SubSeq(b, 1, n)>> \o Utf8Chars(SubSeq(b, n + 1, Len(b)))

RECURSIVE Flatten(_)
Flatten(cs) == IF cs = <<>> THEN <<>> ELSE Head(cs) \o Flatten(Tail(cs))

\* Transactable::splice_text(text, pos, del, ins): pos and del count the
\* characters of the text object, not the bytes of its UTF-8 encoding. The
\* deletion stops at the end of the text; an insertion behind the end is an
\* invalid index.
splice_text(text, pos, del, ins) ==
  LET cs == Utf8Chars(text)
      from == Min(pos, Len(cs))
      to == Min(pos + del, Len(cs))
  IN IF ins # <<>> /\ pos > Len(cs)
     THEN Err(AuError("Automerge", "", "invalid index"))
     ELSE Ok(Flatten(SubSeq(cs, 1, from)) \o ins \o Flatten(SubSeq(cs, to + 1, Len(cs))))

\* ---------------------------------------------------------------------------
\* Project::with_updated_item
\* ---------------------------------------------------------------------------

RECURSIVE parent_walk(_, _, _, _)
\* the cycle-detecting loop: from cur up the parent links of the index.
\* The loop has no bound of its own; a walk that has moved along more links
\* than the index has items without ending is inside a loop of the parent
\* graph and never ends ("diverges").
parent_walk(ix, id, cur, fuel) ==
  IF cur \notin DOMAIN ix THEN [out |-> "NoSuchKey", key |-> cur]
  ELSE IF ix[cur].parent = None THEN [out |-> "break", key |-> cur]
  ELSE IF Unwrap(ix[cur].parent) = id THEN [out |-> "cycle", key |-> cur]
  ELSE IF fuel = 0 THEN [out |-> "diverges", key |-> cur]
  ELSE parent_walk(ix, id, Unwrap(ix[cur].parent), fuel - 1)

\* the state of the loop over the edits: the clone being edited, the document
\* and how the edit ended
Step(item, d, r) == [item |-> item, doc |-> d, ret |-> r]

OP_UPDATE == "with_updated_item"

\* Parent(None) that deletes the key of the document and leaves the clone
update_parent_none_doc_only(d, id, new_item) ==
  IF IsSome(new_item.parent)
  THEN Step(new_item, DeleteField(d, id, DOC_ITEM_PARENT_NODE), RetOk(OP_UPDATE))
  ELSE Step(new_item, d, RetOk(OP_UPDATE))

\* ItemUpdate::Parent(None)
update_parent_none(d, id, new_item) ==
  IF IsSome(new_item.parent)
  THEN Step([new_item EXCEPT !.parent = None], DeleteField(d, id, DOC_ITEM_PARENT_NODE), RetOk(OP_UPDATE))
  ELSE Step(new_item, d, RetOk(OP_UPDATE))

\* Parent(Some(new_parent)) whose walk only checks that the chain exists
update_parent_some_no_cycle_check(ix, d, id, new_item, new_parent) ==
  LET w == parent_walk(ix, id, new_parent, Cardinality(DOMAIN ix))
  IN CASE w.out = "NoSuchKey" -> Step(new_item, d, RetErr(OP_UPDATE, "NoSuchKey", w.key, ""))
       [] w.out = "diverges" -> Step(new_item, d, RetErr(OP_UPDATE, "Diverges", new_parent, ""))
       [] OTHER -> Step([new_item EXCEPT !.parent = Some(new_parent)],
                        PutField(d, id, DOC_ITEM_PARENT_NODE, StrVal(new_parent)), RetOk(OP_UPDATE))

\* Parent(Some(new_parent)) that writes the key of the document first and
\* walks the chain after
update_parent_some_writes_first(ix, d, id, new_item, new_parent) ==
  LET w == parent_walk(ix, id, new_parent, Cardinality(DOMAIN ix))
      d1 == PutField(d, id, DOC_ITEM_PARENT_NODE, StrVal(new_parent))
  IN CASE w.out = "NoSuchKey" -> Step(new_item, d1, RetErr(OP_UPDATE, "NoSuchKey", w.key, ""))
       [] w.out = "cycle" -> Step(new_item, d1, RetErr(OP_UPDATE, "InvalidOperation", new_parent, "has a cycle"))
       [] w.out = "diverges" -> Step(new_item, d1, RetErr(OP_UPDATE, "Diverges", new_parent, ""))
       [] OTHER -> Step([new_item EXCEPT !.parent = Some(new_parent)], d1, RetOk(OP_UPDATE))

\* ItemUpdate::Parent(Some(new_parent))
update_parent_some(ix, d, id, new_item, new_parent) ==
  LET w == parent_walk(ix, id, new_parent, Cardinality(DOMAIN ix))
  IN CASE w.out = "NoSuchKey" -> Step(new_item, d, RetErr(OP_UPDATE, "NoSuchKey", w.key, ""))
       [] w.out = "cycle" -> Step(new_item, d, RetErr(OP_UPDATE, "InvalidOperation", new_parent, "has a cycle"))
       [] w.out = "diverges" -> Step(new_item, d, RetErr(OP_UPDATE, "Diverges", new_parent, ""))
       [] OTHER -> Step([new_item EXCEPT !.parent = Some(new_parent)],
                        PutField(d, id, DOC_ITEM_PARENT_NODE, StrVal(new_parent)), RetOk(OP_UPDATE))

\* ItemUpdate::Rank(new_rank)
update_rank(d, id, new_item, new_rank) ==
  Step([new_item EXCEPT !.rank = new_rank], PutField(d, id, DOC_ITEM_RANK_NODE, IntVal(new_rank)), RetOk(OP_UPDATE))

\* ItemUpdate::Class(None) and ItemUpdate::Class(Some(new_class))
update_class(d, id, new_item, new_class) ==
  IF new_class = None
  THEN Step([new_item EXCEPT !.class = None], DeleteField(d, id, DOC_ITEM_CLASS_NODE), RetOk(OP_UPDATE))
  ELSE Step([new_item EXCEPT !.class = new_class],
            PutField(d, id, DOC_ITEM_CLASS_NODE, StrVal(Unwrap(new_class))), RetOk(OP_UPDATE))

\* the splice of the text node that holds old, towards new
update_text_node(d, id, item, old, new) ==
  LET prefix == common_prefix(new, old)
  IN IF ~slice_ok(new, prefix, Len(new)) \/ ~slice_ok(old, prefix, Len(old))
     THEN Step(item, d, RetErr(OP_UPDATE, "Panic", "", "byte index is not a char boundary"))
     ELSE
       LET suffix == common_suffix(slice(new, prefix, Len(new)), slice(old, prefix, Len(old)))
       IN IF prefix > 0 \/ suffix > 0
          THEN LET del_len == Len(old) - prefix - suffix
                   new_end == Len(new) - suffix
               IN IF ~slice_ok(new, prefix, new_end)
                  THEN Step(item, d, RetErr(OP_UPDATE, "Panic", "", "byte index is not a char boundary"))
                  ELSE LET sp == splice_text(old, prefix, del_len, slice(new, prefix, new_end))
                       IN IF sp.ok
                          THEN Step(item, PutField(d, id, DOC_ITEM_CONTENT_NODE, TextVal(Unwrap(sp.val))), RetOk(OP_UPDATE))
                          ELSE Step(item, d, RetErr(OP_UPDATE, "Automerge", "", "invalid index"))
          ELSE Step(item, PutField(d, id, DOC_ITEM_CONTENT_NODE, TextVal(new)), RetOk(OP_UPDATE))

\* the Content arm without the test `new_item.content != new_content`: the
\* content node is written also when the bytes are the ones the item holds
update_content_rewrites_equal(d, id, new_item, new_content_type, new_content) ==
  LET changed == new_item.content_type # new_content_type
      item1 == IF changed THEN [new_item EXCEPT !.content_type = new_content_type] ELSE new_item
      d1 == IF changed THEN PutField(d, id, DOC_ITEM_CONTENT_TYPE_NODE, StrVal(new_content_type)) ELSE d
      item2 == [item1 EXCEPT !.content = new_content]
      cur == get(ItemsOf(d1)[id].v, DOC_ITEM_CONTENT_NODE)
  IN IF starts_with(item2.content_type, CONTENT_TYPE_TEXT_PREFIX)
     THEN IF ~from_utf8_ok(new_content)
          THEN Step(item2, d1, RetErr(OP_UPDATE, "Utf8Error", "", "invalid utf-8"))
          ELSE IF IsSome(cur) /\ Unwrap(cur).kind = "text"
          THEN update_text_node(d1, id, item2, Unwrap(cur).v, new_content)
          ELSE Step(item2, PutField(d1, id, DOC_ITEM_CONTENT_NODE, TextVal(new_content)), RetOk(OP_UPDATE))
     ELSE Step(item2, PutField(d1, id, DOC_ITEM_CONTENT_NODE, BytesVal(new_content)), RetOk(OP_UPDATE))

\* ItemUpdate::Content(new_content_type, new_content)
update_content(d, id, new_item, new_content_type, new_content) ==
  LET changed == new_item.content_type # new_content_type
      item1 == IF changed THEN [new_item EXCEPT !.content_type = new_content_type] ELSE new_item
      d1 == IF changed THEN PutField(d, id, DOC_ITEM_CONTENT_TYPE_NODE, StrVal(new_content_type)) ELSE d
  IN IF item1.content = new_content
     THEN Step(item1, d1, RetOk(OP_UPDATE))
     ELSE
       LET item2 == [item1 EXCEPT !.content = new_content]
           cur == get(ItemsOf(d1)[id].v, DOC_ITEM_CONTENT_NODE)
       IN IF starts_with(item2.content_type, CONTENT_TYPE_TEXT_PREFIX)
          THEN IF ~from_utf8_ok(new_content)
               THEN Step(item2, d1, RetErr(OP_UPDATE, "Utf8Error", "", "invalid utf-8"))
               ELSE IF IsSome(cur) /\ Unwrap(cur).kind = "text"
               THEN update_text_node(d1, id, item2, Unwrap(cur).v, new_content)
               ELSE Step(item2, PutField(d1, id, DOC_ITEM_CONTENT_NODE, TextVal(new_content)), RetOk(OP_UPDATE))
          ELSE Step(item2, PutField(d1, id, DOC_ITEM_CONTENT_NODE, BytesVal(new_content)), RetOk(OP_UPDATE))

\* whether the splice_text or update_text call on the text node that holds old
\* adds an operation to the open transaction: splice_text adds one for every
\* character it deletes or inserts, update_text one for every character in
\* which old and new differ, so none when the two texts are equal
text_node_written(old, new) ==
  LET prefix == common_prefix(new, old)
  IN IF ~slice_ok(new, prefix, Len(new)) \/ ~slice_ok(old, prefix, Len(old))
     THEN FALSE
     ELSE
       LET suffix == common_suffix(slice(new, prefix, Len(new)), slice(old, prefix, Len(old)))
       IN IF prefix > 0 \/ suffix > 0
          THEN LET del_len == Len(old) - prefix - suffix
                   new_end == Len(new) - suffix
                   chars == Len(Utf8Chars(old))
               IN /\ slice_ok(new, prefix, new_end)
                  /\ splice_text(old, prefix, del_len, slice(new, prefix, new_end)).ok
                  /\ \/ slice(new, prefix, new_end) # <<>>
                     \/ Min(prefix + del_len, chars) > Min(prefix, chars)
          ELSE old # new

\* the keys of the item node to which the Content arm adds operations
update_content_writes(d, id, new_item, new_content_type, new_content) ==
  LET changed == new_item.content_type # new_content_type
      cur == get(ItemsOf(d)[id].v, DOC_ITEM_CONTENT_NODE)
      type_writes == IF changed THEN {DOC_ITEM_CONTENT_TYPE_NODE} ELSE {}
      content_writes ==
        IF new_item.content = new_content THEN {}
        ELSE IF starts_with(new_content_type, CONTENT_TYPE_TEXT_PREFIX)
        THEN IF ~from_utf8_ok(new_content) THEN {}
             ELSE IF IsSome(cur) /\ Unwrap(cur).kind = "text"
             THEN IF text_node_written(Unwrap(cur).v, new_content) THEN {DOC_ITEM_CONTENT_NODE} ELSE {}
             ELSE {DOC_ITEM_CONTENT_NODE}
        ELSE {DOC_ITEM_CONTENT_NODE}
  IN type_writes \cup content_writes

\* the keys to which with_updated_item(id, [Content(..)]) adds operations: the
\* items map where the document has none, and the keys of the item node
with_updated_content_writes(ix, d, id, new_content_type, new_content) ==
  IF id \notin DOMAIN ix THEN {}
  ELSE
    LET d0 == ensure_items_node(d)
        got == get(ItemsOf(d0), id)
        made == IF find_items_node(d).ok THEN {} ELSE {DOC_ITEMS_NODE}
    IN IF got = None \/ Unwrap(got).kind # "map" THEN made
       ELSE made \cup update_content_writes(d0, id, ix[id], new_content_type, new_content)

\* one arm of the match over the edit
apply_update(ix, d, id, new_item, u) ==
  CASE u.t = "Parent" /\ u.parent = None -> update_parent_none(d, id, new_item)
    [] u.t = "Parent" /\ u.parent # None -> update_parent_some(ix, d, id, new_item, Unwrap(u.parent))
    [] u.t = "Rank" -> update_rank(d, id, new_item, u.rank)
    [] u.t = "Class" -> update_class(d, id, new_item, u.class)
    [] OTHER -> update_content(d, id, new_item, u.content_type, u.content)

\* an early return that puts the clone, as edited so far, into the index
early_return_inserts_clone(ix, id, new_item, st) == Res(put(ix, id, new_item), st.doc, st.ret)

\* the `?` of an edit that fails: the function returns the error, the clone
\* new_item is dropped and the insert into the index is not reached
early_return(ix, id, new_item, st) == Res(ix, st.doc, st.ret)

RECURSIVE apply_updates(_, _, _, _, _)
\* for update in updates { ... }, then the insert of the clone into the index;
\* an edit that fails returns at once, after the writes made so far
apply_updates(ix, d, id, new_item, updates) ==
  IF updates = <<>>
  THEN Res(put(ix, id, new_item), d, RetOk(OP_UPDATE))
  ELSE LET st == apply_update(ix, d, id, new_item, Head(updates))
       IN IF st.ret.kind # "Ok"
          THEN early_return(ix, id, new_item, st)
          ELSE apply_updates(ix, st.doc, id, st.item, Tail(updates))

with_updated_item(ix, d, id, updates) ==
  IF id \notin DOMAIN ix
  THEN Res(ix, d, RetErr(OP_UPDATE, "NoSuchKey", id, ""))
  ELSE
    LET d0 == ensure_items_node(d)
        got == get(ItemsOf(d0), id)
    IN IF got = None THEN Res(ix, d0, RetErr(OP_UPDATE, "NoSuchKey", id, ""))
       ELSE IF Unwrap(got).kind # "map" THEN Res(ix, d0, RetErr(OP_UPDATE, "IncorrectType", id, "map"))
       ELSE apply_updates(ix, d0, id, ix[id], updates)

\* ---------------------------------------------------------------------------
\* Project::list_children (the collection of the matching items)
\* ---------------------------------------------------------------------------

\* the collection with the items without a parent pushed for every argument
collect_children_and_roots(ix, parent) ==
  {k \in DOMAIN ix : ix[k].parent = parent \/ ix[k].parent = None}

\* the ids of the items pushed to `out` before the sort
collect_children(ix, parent) == {k \in DOMAIN ix : ix[k].parent = parent}

\* the orders in which HashMap::iter may yield the items of S
IterOrders(S) ==
  {f \in [1..Cardinality(S) -> S] : \A i, j \in 1..Cardinality(S) : f[i] = f[j] => i = j}

\* the closure with the ranks compared the other way round
sort_by_compare_rank_ascending(x, y) ==
  IF x.rank < y.rank \/ (x.rank = y.rank /\ x.at < y.at) THEN "Less"
  ELSE IF x.rank < y.rank \/ (x.rank = y.rank /\ x.at > y.at) THEN "Greater"
  ELSE "Equal"

\* the closure handed to sort_by
sort_by_compare(x, y) ==
  IF x.rank > y.rank \/ (x.rank = y.rank /\ x.at < y.at) THEN "Less"
  ELSE IF x.rank > y.rank \/ (x.rank = y.rank /\ x.at > y.at) THEN "Greater"
  ELSE "Equal"

RECURSIVE insert_tail(_, _)
\* one step of the insertion sort: x moves left past every element it is
\* less than. slice::sort_by only asks whether compare(x, y) is Less.
insert_tail(v, x) ==
  IF v = <<>> \/ sort_by_compare(x, v[Len(v)]) # "Less" THEN Append(v, x)
  ELSE Append(insert_tail(SubSeq(v, 1, Len(v) - 1), x), v[Len(v)])

RECURSIVE sort_by(_)
\* slice::sort_by(compare), a stable sort (insertion sort on short slices)
sort_by(v) ==
  IF v = <<>> THEN <<>>
  ELSE insert_tail(sort_by(SubSeq(v, 1, Len(v) - 1)), v[Len(v)])

\* Project::list_children(parent), order being the order in which the
\* iteration over the index met the matching items
list_children(ix, parent, order) == sort_by([i \in 1..Len(order) |-> ix[order[i]]])

\* ---------------------------------------------------------------------------
\* Value codec (decode.rs)
\* ---------------------------------------------------------------------------

decode_string(node, k) ==
  LET got == get(node, k)
  IN IF IsSome(got) /\ ~IsObject(Unwrap(got))
     THEN IF Unwrap(got).kind # "str"
          THEN Err(AuError("IncorrectType", k, "string"))
          ELSE Ok(Some(Unwrap(got).v))
     ELSE Ok(None)

decode_bool(node, k) ==
  LET got == get(node, k)
  IN IF IsSome(got) /\ ~IsObject(Unwrap(got)) /\ Unwrap(got).kind = "bool"
     THEN Ok(Some(Unwrap(got).v))
     ELSE IF IsSome(got)
     THEN Err(AuError("IncorrectType", k, "bool"))
     ELSE Ok(None)

decode_i64(node, k) ==
  LET got == get(node, k)
  IN IF IsSome(got) /\ ~IsObject(Unwrap(got))
     THEN IF Unwrap(got).kind # "int"
          THEN Err(AuError("IncorrectType", k, "i64"))
          ELSE Ok(Some(Unwrap(got).v))
     ELSE Ok(None)

\* ScalarValue::to_u64 that knows Int(n) only
to_u64_int_only(val) ==
  IF val.kind = "int"
  THEN Some([wrap |-> IF val.v < 0 THEN 1 ELSE 0, low |-> val.v])
  ELSE None

\* ScalarValue::to_u64: Some(n as u64) of an Int(n) and of a Timestamp(n),
\* where a negative n wraps, and None of a value that is no number.
\* The u64 is kept as wrap * 2^64 + low.
to_u64(val) ==
  IF val.kind \in {"int", "timestamp"}
  THEN Some([wrap |-> IF val.v < 0 THEN 1 ELSE 0, low |-> val.v])
  ELSE None

\* OffsetDateTime::from_unix_timestamp_nanos(u as i128 * 1_000_000): a wrapped
\* u is at least 2^63 milliseconds, beyond every date the type can hold; the
\* milliseconds of the model are far below the upper end of the range
from_unix_timestamp_millis(u) ==
  IF u.wrap = 0 THEN Ok(u.low * NANOS_PER_MILLI) ELSE Err("ComponentRange")

decode_timestamp(node, k) ==
  LET got == get(node, k)
  IN IF IsSome(got) /\ ~IsObject(Unwrap(got))
     THEN IF Unwrap(got).kind # "timestamp"
          THEN Err(AuError("IncorrectType", k, "timestamp"))
          ELSE LET u == to_u64(Unwrap(got))
               IN IF u = None
                  THEN Err(AuError("Panic", k, "unwrap on a None value"))
                  ELSE LET t == from_unix_timestamp_millis(Unwrap(u))
                       IN IF t.ok THEN Ok(Some(Unwrap(t.val)))
                          ELSE Err(AuError("IncorrectType", k, "timestamp"))
     ELSE Ok(None)

\* decode_content for which a key that is not there is an error
decode_content_missing_is_error(node, k) ==
  LET got == get(node, k)
  IN IF IsSome(got) /\ Unwrap(got).kind = "text" THEN Ok(Some(Unwrap(got).v))
     ELSE IF IsSome(got) /\ ~IsObject(Unwrap(got))
     THEN IF Unwrap(got).kind = "bytes"
          THEN Ok(Some(Unwrap(got).v))
          ELSE Err(AuError("IncorrectType", k, "text"))
     ELSE IF IsSome(got) THEN Ok(None)
     ELSE Err(AuError("NoSuchKey", k, ""))

decode_content(node, k) ==
  LET got == get(node, k)
  IN IF IsSome(got) /\ Unwrap(got).kind = "text" THEN Ok(Some(Unwrap(got).v))
     ELSE IF IsSome(got) /\ ~IsObject(Unwrap(got))
     THEN IF Unwrap(got).kind = "bytes"
          THEN Ok(Some(Unwrap(got).v))
          ELSE Err(AuError("IncorrectType", k, "text"))
     ELSE Ok(None)

\* ---------------------------------------------------------------------------
\* Reconstruction: decode_item_inner, decode_item, decode_project
\* ---------------------------------------------------------------------------

\* decode_x(..)?.map_or_else(|| Err(NoSuchKey(k)), Ok)?
Required(r, k) ==
  IF ~r.ok THEN r
  ELSE IF Unwrap(r.val) = None THEN Err(AuError("NoSuchKey", k, ""))
  ELSE Ok(Unwrap(Unwrap(r.val)))

decode_item_inner(item_node, k) ==
  LET at == Required(decode_timestamp(item_node, DOC_ITEM_AT_NODE), DOC_ITEM_AT_NODE)
      content == Required(decode_content(item_node, DOC_ITEM_CONTENT_NODE), DOC_ITEM_CONTENT_NODE)
      content_type == Required(decode_string(item_node, DOC_ITEM_CONTENT_TYPE_NODE), DOC_ITEM_CONTENT_TYPE_NODE)
      parent == decode_string(item_node, DOC_ITEM_PARENT_NODE)
      class == decode_string(item_node, DOC_ITEM_CLASS_NODE)
      rank == decode_i64(item_node, DOC_ITEM_RANK_NODE)
  IN IF ~at.ok THEN at
     ELSE IF ~content.ok THEN content
     ELSE IF ~content_type.ok THEN content_type
     ELSE IF ~parent.ok THEN parent
     ELSE IF ~class.ok THEN class
     ELSE IF ~rank.ok THEN rank
     ELSE Ok(Some([id |-> k, at |-> Unwrap(at.val), class |-> Unwrap(class.val),
                   content_type |-> Unwrap(content_type.val), content |-> Unwrap(content.val),
                   rank |-> IF Unwrap(rank.val) = None THEN 0 ELSE Unwrap(Unwrap(rank.val)),
                   parent |-> Unwrap(parent.val)]))

\* decode_item that hands the error of the fields on as it is
decode_item_flat(items_node, k) ==
  LET got == get(items_node, k)
  IN IF got = None THEN Ok(None)
     ELSE IF Unwrap(got).kind # "map" THEN Err(AuError("IncorrectType", k, "map"))
     ELSE decode_item_inner(Unwrap(got).v, k)

decode_item(items_node, k) ==
  LET got == get(items_node, k)
  IN IF got = None THEN Ok(None)
     ELSE IF Unwrap(got).kind # "map" THEN Err(AuError("IncorrectType", k, "map"))
     ELSE LET r == decode_item_inner(Unwrap(got).v, k)
          IN IF r.ok THEN r ELSE Err(NestedError(k, Unwrap(r.err)))

\* the ids the callers use, in the order in which ReadDoc::keys yields them
IdPool == <<"a", "b", "c">>

\* position of a key in the order of keys()
KeyPos(k) == CHOOSE i \in 1..Len(IdPool) : IdPool[i] = k

\* decode_project that leaves out the keys that do not decode
decode_project_skips_failures(source) ==
  LET found == find_items_node(source)
  IN IF ~found.ok THEN found
     ELSE
       LET items_node == Unwrap(found.val)
           good == {k \in DOMAIN items_node : decode_item(items_node, k).ok}
       IN Ok([k \in good |-> Unwrap(Unwrap(decode_item(items_node, k).val))])

decode_project(source) ==
  LET found == find_items_node(source)
  IN IF ~found.ok THEN found
     ELSE
       LET items_node == Unwrap(found.val)
           bad == {k \in DOMAIN items_node : ~decode_item(items_node, k).ok}
       IN IF bad # {}
          THEN LET k == CHOOSE x \in bad : \A y \in bad : KeyPos(x) <= KeyPos(y)
               IN Err(NestedError(DOC_ITEMS_NODE, Unwrap(decode_item(items_node, k).err)))
          ELSE Ok([k \in DOMAIN items_node |-> Unwrap(Unwrap(decode_item(items_node, k).val))])

\* ---------------------------------------------------------------------------
\* The callers: inputs of the model
\* ---------------------------------------------------------------------------

Ids == {IdPool[i] : i \in 1..Len(IdPool)}

OptIds == {None} \cup {Some(x) : x \in Ids}

\* a byte sequence that is not UTF-8
BadUtf8 == <<255>>

\* Item::default() with an id and a parent, and Item::default() with an id and
\* a content that is not text (the content type is text/plain throughout)
Items ==
  {[ItemDefault EXCEPT !.id = i, !.parent = p] : i \in Ids \cup {""}, p \in OptIds}
    \cup {[ItemDefault EXCEPT !.id = i, !.content = BadUtf8] : i \in Ids}

\* the edits of the tree: clear the parent, or set it to any id
Edits == {UpdParent(p) : p \in OptIds}

UpdateLists == UNION {[1..n -> Edits] : n \in 0..MaxEdits}

\* ---------------------------------------------------------------------------
\* The state machine: a Project and its document under a sequence of calls
\* ---------------------------------------------------------------------------

\* a call of the public interface, as the caller writes it
NoCall == [op |-> "", item |-> ItemDefault, id |-> "", updates |-> <<>>]

CallWithItem(item) == [NoCall EXCEPT !.op = "with_item", !.item = item]

CallWithoutItem(id) == [NoCall EXCEPT !.op = "without_item", !.id = id]

CallWithUpdatedItem(id, updates) == [NoCall EXCEPT !.op = OP_UPDATE, !.id = id, !.updates = updates]

\* the calls of test_project_with_item_tree, in order: insert a (root), b
\* (under a), c (under b), delete c, clear the parent of b, put a under b
TreeTestCalls ==
  <<CallWithItem([ItemDefault EXCEPT !.id = "a"]),
    CallWithItem([ItemDefault EXCEPT !.id = "b", !.parent = Some("a")]),
    CallWithItem([ItemDefault EXCEPT !.id = "c", !.parent = Some("b")]),
    CallWithoutItem("c"),
    CallWithUpdatedItem("b", <<UpdParent(None)>>),
    CallWithUpdatedItem("a", <<UpdParent(Some("b"))>>)>>

\* script: how many calls of the tree test have been made, while the calls
\* made so far are exactly its first calls; -1 for any other caller
script_after(n, call) ==
  IF n >= 0 /\ n < Len(TreeTestCalls) /\ call = TreeTestCalls[n + 1] THEN n + 1 ELSE -1

\* args and result hold the arguments and the result of a function of the
\* crate that is evaluated on its own (the diff engine, the value codec, the
\* reconstruction); the calls on a Project leave them alone.
\* changes is the number of change records that doc.commit() has added to the
\* history of the document; a caller that never commits leaves it at 0.
\* heap holds the Rc<Item> allocations of the index for the caller that keeps
\* the Rc it was handed: cells maps an address to the Item behind it, rc maps
\* an index key to the address its Rc points to
NoArgs == <<>>

NoHeap == [cells |-> <<>>, rc |-> <<>>]

NoResult == [fn |-> "", out |-> <<>>]

FnResult(fn, out) == [fn |-> fn, out |-> out]

\* the frame of a function evaluated on its own: no Project, no document
NoProject ==
  /\ index = <<>>
  /\ doc = <<>>
  /\ ret = RetOk("new")
  /\ script = 0
  /\ changes = 0
  /\ heap = NoHeap

\* Project::default() and AutoCommit::new()
Init ==
  /\ index = <<>>
  /\ doc = <<>>
  /\ ret = RetOk("new")
  /\ script = 0
  /\ changes = 0
  /\ heap = NoHeap
  /\ args = NoArgs
  /\ result = NoResult

\* a call that diverged or panicked never returns to the caller
Returned == ret.kind \notin {"Diverges", "Panic"}

Call(r, call) ==
  /\ Returned
  /\ index' = r.index
  /\ doc' = r.doc
  /\ ret' = r.ret
  /\ script' = script_after(script, call)
  /\ UNCHANGED <<args, result, changes, heap>>

WithItem(item) == Call(with_item(index, doc, item), CallWithItem(item))

WithoutItem(id) == Call(without_item(index, doc, id), CallWithoutItem(id))

WithUpdatedItem(id, updates) ==
  Call(with_updated_item(index, doc, id, updates), CallWithUpdatedItem(id, updates))

Next ==
  \/ \E item \in Items : WithItem(item)
  \/ \E id \in Ids : WithoutItem(id)
  \/ \E id \in Ids, updates \in UpdateLists : WithUpdatedItem(id, updates)

Spec == Init /\ [][Next]_vars

\* ---------------------------------------------------------------------------
\* A second caller: one item whose content and content type are edited
\* ---------------------------------------------------------------------------

\* longest text, in characters, the content callers write
MaxChars == 2

\* the characters of those texts, as their UTF-8 bytes: "a", and the
\* two-byte characters e-acute and e-grave, which share their first byte
TextChars == {<<97>>, <<195, 169>>, <<195, 168>>}

Texts == UNION {{Flatten(cs) : cs \in [1..n -> TextChars]} : n \in 0..MaxChars}

CONTENT_TYPE_BINARY == "application/octet-stream"

ContentTypes == {CONTENT_TYPE_DEFAULT, CONTENT_TYPE_BINARY}

ContentIds == {IdPool[1]}

\* the contents the callers hand over: the texts, and bytes that are no text
Contents == Texts \cup {BadUtf8}

\* the item is inserted empty, or with bytes that are no text, and edited after
ContentItems ==
  {[ItemDefault EXCEPT !.id = i, !.content_type = ct, !.content = b] :
     i \in ContentIds, ct \in ContentTypes, b \in {<<>>, BadUtf8}}

ContentEdits == {UpdContent(ct, b) : ct \in ContentTypes, b \in Contents}

NextContent ==
  \/ \E item \in ContentItems : WithItem(item)
  \/ \E id \in ContentIds : WithoutItem(id)
  \/ \E id \in ContentIds, u \in ContentEdits : WithUpdatedItem(id, <<u>>)

SpecContent == Init /\ [][NextContent]_vars

\* ---------------------------------------------------------------------------
\* A third caller: items of different ranks and times, listed by parent
\* ---------------------------------------------------------------------------

\* largest rank the listing callers give to an item
MaxRank == 1

Ranks == 0..MaxRank

\* the times of the items, in nanoseconds
Ats == {0, NANOS_PER_MILLI}

\* the parents of the listed items: none, or the first id
ListParents == {None, Some(IdPool[1])}

ListItems ==
  {[ItemDefault EXCEPT !.id = i, !.rank = r, !.at = t, !.parent = p] :
     i \in Ids, r \in Ranks, t \in Ats, p \in ListParents}

ListArgs(parent, order) == [parent |-> parent, order |-> order]

\* list_children(parent): a read of the index
ListChildren(parent, order) ==
  /\ Returned
  /\ args' = ListArgs(parent, order)
  /\ result' = FnResult("list_children", list_children(index, parent, order))
  /\ UNCHANGED <<index, doc, ret, script, changes, heap>>

\* has_children(parent): a read of the index
HasChildren(parent) ==
  /\ Returned
  /\ args' = ListArgs(parent, <<>>)
  /\ result' = FnResult("has_children", has_children(index, parent))
  /\ UNCHANGED <<index, doc, ret, script, changes, heap>>

\* the callers build the tree, change ranks, and read the index last
NextList ==
  \/ result.fn = NoResult.fn /\ \E item \in ListItems : WithItem(item)
  \/ result.fn = NoResult.fn /\ \E id \in Ids, r \in Ranks : WithUpdatedItem(id, <<UpdRank(r)>>)
  \/ \E parent \in ListParents : \E order \in IterOrders(collect_children(index, parent)) :
       ListChildren(parent, order)
  \/ \E parent \in OptIds : HasChildren(parent)

SpecList == Init /\ [][NextList]_vars

\* ---------------------------------------------------------------------------
\* The value codec on its own: the five getters on a node and a key
\* ---------------------------------------------------------------------------

\* the timestamps of the nodes reach from MaxMillis milliseconds before 1970
\* to MaxMillis milliseconds after
MaxMillis == 2

\* the values a key of the node may hold: every scalar kind the schema
\* uses, timestamps before and after 1970, and the three kinds of object
CodecValues ==
  {StrVal("foo"), BoolVal(TRUE), IntVal(42), BytesVal(<<1, 2>>), MapVal(<<>>), ListVal, TextVal(<<97>>)}
    \cup {TimestampVal(ms) : ms \in (0 - MaxMillis)..MaxMillis}

CodecKeys == {"thing", "other"}

\* the nodes: each key is absent or holds one of the values
CodecNodes ==
  UNION {[ks -> CodecValues] : ks \in SUBSET CodecKeys}

CodecArgs(node, k) == [node |-> node, k |-> k]

InitCodec ==
  /\ NoProject
  /\ args \in {CodecArgs(node, k) : node \in CodecNodes, k \in CodecKeys}
  /\ result = NoResult

DecodeString ==
  /\ result' = FnResult("decode_string", decode_string(args.node, args.k))
  /\ UNCHANGED <<index, doc, ret, script, args, changes, heap>>

DecodeBool ==
  /\ result' = FnResult("decode_bool", decode_bool(args.node, args.k))
  /\ UNCHANGED <<index, doc, ret, script, args, changes, heap>>

DecodeI64 ==
  /\ result' = FnResult("decode_i64", decode_i64(args.node, args.k))
  /\ UNCHANGED <<index, doc, ret, script, args, changes, heap>>

DecodeTimestamp ==
  /\ result' = FnResult("decode_timestamp", decode_timestamp(args.node, args.k))
  /\ UNCHANGED <<index, doc, ret, script, args, changes, heap>>

DecodeContent ==
  /\ result' = FnResult("decode_content", decode_content(args.node, args.k))
  /\ UNCHANGED <<index, doc, ret, script, args, changes, heap>>

NextCodec == DecodeString \/ DecodeBool \/ DecodeI64 \/ DecodeTimestamp \/ DecodeContent

SpecCodec == InitCodec /\ [][NextCodec]_vars

\* ---------------------------------------------------------------------------
\* The reconstruction on its own: decode_item and decode_project on documents
\* that any writer may have produced
\* ---------------------------------------------------------------------------

RequiredFields == {DOC_ITEM_AT_NODE, DOC_ITEM_CONTENT_NODE, DOC_ITEM_CONTENT_TYPE_NODE}

OptionalFields == {DOC_ITEM_PARENT_NODE, DOC_ITEM_CLASS_NODE, DOC_ITEM_RANK_NODE}

\* a key outside the schema of an item node
DOC_ITEM_DELETED_NODE == "deleted"

\* a value of the shape the schema gives to field f
GoodValue(f) ==
  CASE f = DOC_ITEM_AT_NODE -> TimestampVal(1)
    [] f = DOC_ITEM_CONTENT_NODE -> TextVal(<<97>>)
    [] f = DOC_ITEM_CONTENT_TYPE_NODE -> StrVal("text/markdown")
    [] f = DOC_ITEM_PARENT_NODE -> StrVal("b")
    [] f = DOC_ITEM_CLASS_NODE -> StrVal("todo")
    [] f = DOC_ITEM_RANK_NODE -> IntVal(42)
    [] OTHER -> BoolVal(TRUE)

\* a scalar of another kind than the schema gives to field f
WrongValue(f) == IF f \in {DOC_ITEM_AT_NODE, DOC_ITEM_RANK_NODE} THEN StrVal("x") ELSE IntVal(7)

FieldShapes == {"good", "absent", "wrong"}

\* the optional fields: all absent, all well-shaped, or one of them ill-shaped
OptionalShapes ==
  {[f \in OptionalFields |-> "absent"], [f \in OptionalFields |-> "good"]}
    \cup {[f \in OptionalFields |-> IF f = g THEN "wrong" ELSE "good"] : g \in OptionalFields}

\* the item node with the given shapes of its fields, and with or without a
\* key outside the schema
NodeOf(shape, extra) ==
  LET present == {f \in DOMAIN shape : shape[f] # "absent"} \cup (IF extra THEN {DOC_ITEM_DELETED_NODE} ELSE {})
  IN [f \in present |->
        IF f \in DOMAIN shape /\ shape[f] = "wrong" THEN WrongValue(f) ELSE GoodValue(f)]

ItemNodes ==
  {NodeOf(rs @@ os, extra) : rs \in [RequiredFields -> FieldShapes], os \in OptionalShapes, extra \in BOOLEAN}

\* what the items map may hold under the first key: nothing, a value that is
\* no map, or any of the item nodes
FirstKeyValues == {None, Some(ListVal)} \cup {Some(MapVal(n)) : n \in ItemNodes}

\* what it may hold under the second key: nothing, a value that is no map,
\* a minimal item node, or an item node without content type
SecondKeyValues ==
  {None, Some(StrVal("x")),
   Some(MapVal(NodeOf([f \in RequiredFields |-> "good"], FALSE))),
   Some(MapVal(NodeOf([f \in RequiredFields |-> IF f = DOC_ITEM_CONTENT_TYPE_NODE THEN "absent" ELSE "good"], FALSE)))}

ItemsMapOf(first, second) ==
  LET opt == (IdPool[1] :> first) @@ (IdPool[2] :> second)
  IN [k \in {x \in DOMAIN opt : IsSome(opt[x])} |-> Unwrap(opt[k])]

\* the documents: a root without items, a root whose items is no map, and
\* the roots with an items map
DecodeDocs ==
  {<<>>, (DOC_ITEMS_NODE :> StrVal("x")), (DOC_ITEMS_NODE :> ListVal), (DOC_ITEMS_NODE :> TextVal(<<97>>))}
    \cup {(DOC_ITEMS_NODE :> MapVal(ItemsMapOf(first, second))) : first \in FirstKeyValues, second \in SecondKeyValues}

DecodeArgs(source, k) == [source |-> source, k |-> k]

InitDecode ==
  /\ NoProject
  /\ args \in {DecodeArgs(source, k) : source \in DecodeDocs, k \in {IdPool[1], IdPool[2]}}
  /\ result = NoResult

DecodeProject ==
  /\ result' = FnResult("decode_project", decode_project(args.source))
  /\ UNCHANGED <<index, doc, ret, script, args, changes, heap>>

\* decode_item on the items collection of the document
DecodeItem ==
  /\ find_items_node(args.source).ok
  /\ result' = FnResult("decode_item", decode_item(Unwrap(find_items_node(args.source).val), args.k))
  /\ UNCHANGED <<index, doc, ret, script, args, changes, heap>>

NextDecode == DecodeProject \/ DecodeItem

SpecDecode == InitDecode /\ [][NextDecode]_vars

\* ---------------------------------------------------------------------------
\* The diff engine on its own: common_prefix and common_suffix of two slices
\* ---------------------------------------------------------------------------

\* most whole blocks in a slice handed to the diff engine
MaxBlocks == 2

\* the lengths of the slices: empty, one byte, and one byte below, exactly
\* and one byte above every whole number of blocks
DiffLens == {0, 1} \cup {k * BLOCK + d : k \in 1..MaxBlocks, d \in {-1, 0, 1}}

\* where a slice may differ from the pattern: nowhere (0), at its first byte,
\* at the last byte of a block and at the first byte of the next
DiffFlips(n) == {0} \cup ({1, BLOCK, BLOCK + 1} \cap 1..n)

\* the byte at place i of the pattern the slices follow
DiffPattern(i) == 97 + (i % 5)

\* n bytes that follow the pattern counted from the front, but for place p
DiffFromFront(n, p) == [i \in 1..n |-> IF i = p THEN 65 ELSE DiffPattern(i)]

\* n bytes that follow the pattern counted from the back, but for place p
\* from the back
DiffFromBack(n, p) == [i \in 1..n |-> IF n + 1 - i = p THEN 65 ELSE DiffPattern(n + 1 - i)]

DiffSlices ==
  UNION {{DiffFromFront(n, p) : p \in DiffFlips(n)} \cup {DiffFromBack(n, p) : p \in DiffFlips(n)} :
           n \in DiffLens}

DiffArgs(a, b) == [a |-> a, b |-> b]

InitDiff ==
  /\ NoProject
  /\ args \in {DiffArgs(a, b) : a \in DiffSlices, b \in DiffSlices}
  /\ result = NoResult

CommonPrefix ==
  /\ result' = FnResult("common_prefix", common_prefix(args.a, args.b))
  /\ UNCHANGED <<index, doc, ret, script, args, changes, heap>>

CommonSuffix ==
  /\ result' = FnResult("common_suffix", common_suffix(args.a, args.b))
  /\ UNCHANGED <<index, doc, ret, script, args, changes, heap>>

\* the two lengths of the Content arm with the suffix taken of the whole
\* contents
content_diff_whole_suffix(new, old) ==
  LET common_prefix_length == common_prefix(new, old)
  IN [prefix |-> common_prefix_length, suffix |-> common_suffix(new, old)]

\* the two lengths the Content arm computes before it splices: the prefix of
\* the contents, and the suffix of what follows the prefix in each
content_diff(new, old) ==
  LET common_prefix_length == common_prefix(new, old)
  IN [prefix |-> common_prefix_length,
      suffix |-> common_suffix(SubSeq(new, common_prefix_length + 1, Len(new)),
                               SubSeq(old, common_prefix_length + 1, Len(old)))]

\* args.a is the new content, args.b the old one
ContentDiff ==
  /\ result' = FnResult("content_diff", content_diff(args.a, args.b))
  /\ UNCHANGED <<index, doc, ret, script, args, changes, heap>>

\* the caller applies one of the functions to its pair of slices
NextDiff ==
  \/ result.fn = NoResult.fn /\ CommonPrefix
  \/ result.fn = NoResult.fn /\ CommonSuffix
  \/ result.fn = NoResult.fn /\ ContentDiff

SpecDiff == InitDiff /\ [][NextDiff]_vars

\* ---------------------------------------------------------------------------
\* A fourth caller: one item edited in every field, several edits in a call
\* ---------------------------------------------------------------------------

\* the item that is edited, and a second item that can be its parent
EditedIds == {IdPool[1]}

EditItems == {[ItemDefault EXCEPT !.id = i] : i \in {IdPool[1], IdPool[2]}}

CLASS_TODO == "todo"

\* the edits: every variant of ItemUpdate, each with two values; the parent
\* IdPool[3] is never inserted, the text "e-acute a" is longer in bytes than
\* in characters
FieldEdits ==
  {UpdParent(None), UpdParent(Some(IdPool[2])), UpdParent(Some(IdPool[3])),
   UpdRank(1), UpdRank(2), UpdClass(None), UpdClass(Some(CLASS_TODO)),
   UpdContent(CONTENT_TYPE_DEFAULT, <<195, 169, 97>>), UpdContent(CONTENT_TYPE_DEFAULT, <<97>>)}

FieldEditLists == UNION {[1..n -> FieldEdits] : n \in 0..MaxEdits}

NextEdits ==
  \/ \E item \in EditItems : WithItem(item)
  \/ \E id \in EditedIds, updates \in FieldEditLists : WithUpdatedItem(id, updates)

SpecEdits == Init /\ [][NextEdits]_vars

\* ---------------------------------------------------------------------------
\* A fifth caller: every call on the Project is followed by doc.commit()
\* ---------------------------------------------------------------------------

\* most change records the committing caller lets the history grow to
MaxChanges == 4

\* whether with_item adds operations to the open transaction: past the
\* validation it creates the node of the item
with_item_writes(ix, item) == with_item_precondition(ix, item) = None

\* AutoCommit::commit(): the operations of the open transaction become one
\* change record; without operations there is no change and no record
commit(n, wrote) == IF wrote THEN n + 1 ELSE n

\* a call on the Project, then doc.commit() if the call returned
CallAndCommit(r, call, wrote) ==
  /\ Returned
  /\ changes < MaxChanges
  /\ index' = r.index
  /\ doc' = r.doc
  /\ ret' = r.ret
  /\ script' = script_after(script, call)
  /\ changes' = IF r.ret.kind \in {"Diverges", "Panic"} THEN changes ELSE commit(changes, wrote)
  /\ UNCHANGED <<args, result, heap>>

WithItemCommit(item) ==
  CallAndCommit(with_item(index, doc, item), CallWithItem(item), with_item_writes(index, item))

WithUpdatedContentCommit(id, u) ==
  CallAndCommit(with_updated_item(index, doc, id, <<u>>), CallWithUpdatedItem(id, <<u>>),
                with_updated_content_writes(index, doc, id, u.content_type, u.content) # {})

NextHistory ==
  \/ \E item \in ContentItems : WithItemCommit(item)
  \/ \E id \in ContentIds, u \in ContentEdits : WithUpdatedContentCommit(id, u)

SpecHistory == Init /\ [][NextHistory]_vars

\* ---------------------------------------------------------------------------
\* A sixth caller: the Project is reconstructed from a document that some
\* writer has produced, and items are inserted and removed after
\* ---------------------------------------------------------------------------

\* the documents that decode_project accepts
LoadableDocs == {source \in DecodeDocs : decode_project(source).ok}

\* decode_project(&doc) on the document the caller holds
InitLoaded ==
  /\ doc \in LoadableDocs
  /\ index = Unwrap(decode_project(doc).val)
  /\ ret = RetOk("decode_project")
  /\ script = -1
  /\ changes = 0
  /\ heap = NoHeap
  /\ args = NoArgs
  /\ result = NoResult

NextLoaded ==
  \/ \E item \in Items : WithItem(item)
  \/ \E id \in Ids : WithoutItem(id)

SpecLoaded == InitLoaded /\ [][NextLoaded]_vars

\* ---------------------------------------------------------------------------
\* A seventh caller: it keeps the Rc<Item> that get_item and list_children
\* hand out while the Project is changed
\* ---------------------------------------------------------------------------

\* the addresses of the Rcs a caller holds: what get_item or list_children
\* returned last, each Rc with the Item the caller read through it
HeldRcs(out) == {out[i].rc : i \in 1..Len(out)}

\* the addresses the Rcs of the index point to
IndexRcs(h) == {h.rc[k] : k \in DOMAIN h.rc}

\* Rc::new: a cell of its own, at the first address no live Rc points to
rc_new(live) ==
  CHOOSE n \in 0..Cardinality(live) : n \notin live /\ \A m \in 0..(n - 1) : m \in live

\* the drop of an Rc: a cell that no Rc points to any more is freed
rc_drop(h, held) ==
  [h EXCEPT !.cells = [a \in (IndexRcs(h) \cup held) \cap DOMAIN h.cells |-> h.cells[a]]]

\* an insert into the index that writes into the cell of the old Rc
index_insert_in_place(h, held, id, item) ==
  IF id \in DOMAIN h.rc
  THEN [h EXCEPT !.cells[h.rc[id]] = item]
  ELSE LET a == rc_new(IndexRcs(h) \cup held)
       IN rc_drop([cells |-> put(h.cells, a, item), rc |-> put(h.rc, id, a)], held)

\* self.children.insert(key, Rc::new(item)) and
\* self.children.insert(key, Rc::from(new_item)): a new cell for the item,
\* and the drop of the Rc the index held under the key
index_insert(h, held, id, item) ==
  LET a == rc_new(IndexRcs(h) \cup held)
  IN rc_drop([cells |-> put(h.cells, a, item), rc |-> put(h.rc, id, a)], held)

\* self.children.remove(id): the drop of the Rc of the index
index_remove(h, held, id) == rc_drop([h EXCEPT !.rc = delete(h.rc, id)], held)

\* a call on the Project by the caller that holds Rcs: h is the heap that a
\* successful call leaves
HolderCall(r, call, h) ==
  /\ Returned
  /\ index' = r.index
  /\ doc' = r.doc
  /\ ret' = r.ret
  /\ script' = script_after(script, call)
  /\ heap' = IF r.ret.kind = "Ok" THEN h ELSE heap
  /\ UNCHANGED <<args, result, changes>>

HolderWithItem(item) ==
  HolderCall(with_item(index, doc, item), CallWithItem(item),
             index_insert(heap, HeldRcs(result.out), item.id, item))

HolderWithoutItem(id) ==
  HolderCall(without_item(index, doc, id), CallWithoutItem(id),
             index_remove(heap, HeldRcs(result.out), id))

HolderWithUpdatedItem(id, updates) ==
  LET r == with_updated_item(index, doc, id, updates)
  IN HolderCall(r, CallWithUpdatedItem(id, updates),
                IF r.ret.kind = "Ok" THEN index_insert(heap, HeldRcs(result.out), id, r.index[id]) ELSE heap)

\* an Rc handed out: its address, and the Item read through it at that time
Snapshot(h, id) == [rc |-> h.rc[id], seen |-> h.cells[h.rc[id]]]

\* get_item(id): a clone of the Rc of the index, or None; the Rcs held before
\* are dropped
GetItem(id) ==
  /\ Returned
  /\ LET out == IF id \in DOMAIN index THEN <<Snapshot(heap, id)>> ELSE <<>>
     IN /\ result' = FnResult("get_item", out)
        /\ heap' = rc_drop(heap, HeldRcs(out))
  /\ UNCHANGED <<index, doc, ret, script, args, changes>>

\* list_children(parent): clones of the Rcs of the matching items, sorted
ListSnapshots(parent, order) ==
  /\ Returned
  /\ LET sorted == list_children(index, parent, order)
         out == [i \in 1..Len(sorted) |-> Snapshot(heap, sorted[i].id)]
     IN /\ result' = FnResult("list_children", out)
        /\ heap' = rc_drop(heap, HeldRcs(out))
  /\ UNCHANGED <<index, doc, ret, script, args, changes>>

HolderIds == {IdPool[1], IdPool[2]}

\* item a at the root, item b at the root or under a; a is dated one
\* millisecond before the Unix epoch, b one millisecond after it
HolderItems ==
  {[ItemDefault EXCEPT !.id = IdPool[1], !.at = 0 - NANOS_PER_MILLI]} \cup
  {[ItemDefault EXCEPT !.id = IdPool[2], !.at = NANOS_PER_MILLI, !.parent = p] : p \in {None, Some(IdPool[1])}}

\* the edits the holder makes: a rank, and a parent cleared
HolderEdits == {UpdRank(1), UpdParent(None)}

HolderEditLists == UNION {[1..n -> HolderEdits] : n \in 0..MaxEdits}

NextHolder ==
  \/ \E item \in HolderItems : HolderWithItem(item)
  \/ \E id \in HolderIds : HolderWithoutItem(id)
  \/ \E id \in HolderIds, updates \in HolderEditLists : HolderWithUpdatedItem(id, updates)
  \/ \E id \in HolderIds : GetItem(id)
  \/ \E parent \in {None, Some(IdPool[1])} : \E order \in IterOrders(collect_children(index, parent)) :
       ListSnapshots(parent, order)

SpecHolder == Init /\ [][NextHolder]_vars

\* ---------------------------------------------------------------------------
\* An eighth caller: calls whose edits fail after edits that succeeded
\* ---------------------------------------------------------------------------

\* two edits that succeed, and two that fail: the parent IdPool[3] is never
\* inserted, and the content is no text while the content type says text
FailingEdits ==
  {UpdRank(1), UpdClass(Some(CLASS_TODO)), UpdParent(Some(IdPool[3])),
   UpdContent(CONTENT_TYPE_DEFAULT, BadUtf8)}

FailingEditLists == UNION {[1..n -> FailingEdits] : n \in 0..MaxEdits}

NextFailing ==
  \/ \E item \in EditItems : WithItem(item)
  \/ \E id \in Ids : WithoutItem(id)
  \/ \E id \in EditedIds, updates \in FailingEditLists : WithUpdatedItem(id, updates)

SpecFailing == Init /\ [][NextFailing]_vars

\* ---------------------------------------------------------------------------
\* Notions the properties are stated with
\* ---------------------------------------------------------------------------

RECURSIVE ReachesRoot(_, _, _)
\* following the parent links from k ends at an item without parent, and
\* meets no item of `seen` and no item twice
ReachesRoot(ix, k, seen) ==
  /\ k \in DOMAIN ix
  /\ k \notin seen
  /\ \/ ix[k].parent = None
     \/ ReachesRoot(ix, Unwrap(ix[k].parent), seen \cup {k})

Acyclic(ix) == \A k \in DOMAIN ix : ReachesRoot(ix, k, {})

RECURSIVE AncestorsWithin(_, _, _)
\* the items met in 1..n parent steps from k
AncestorsWithin(ix, k, n) ==
  IF n = 0 \/ k \notin DOMAIN ix \/ ix[k].parent = None THEN {}
  ELSE {Unwrap(ix[k].parent)} \cup AncestorsWithin(ix, Unwrap(ix[k].parent), n - 1)

\* a occurs on the ancestor chain of dd
IsDescendant(ix, dd, a) ==
  a \in DOMAIN ix /\ dd \in DOMAIN ix /\ a \in AncestorsWithin(ix, dd, Cardinality(DOMAIN ix))

\* the items that name id as their parent
ChildrenOf(ix, id) == {k \in DOMAIN ix : ix[k].parent = Some(id)}

\* the call returned an error
Failed(r) == r.kind \notin {"Ok", "Diverges", "Panic"}

\* ---------------------------------------------------------------------------
\* Properties
\* ---------------------------------------------------------------------------

\* C1: after any sequence of with_item / with_updated_item / without_item
\* calls from an empty Project the parent graph of the index is acyclic:
\* from every item the parent links end at an item without parent and
\* revisit nothing (an item that is its own parent included).
C1_ParentGraphAcyclic == Acyclic(index)

\* C2: round trip. Once the document has its items collection,
\* decode_project on the document yields the same ids as the live index and
\* for every id the same parent, rank, class, content_type, content and at.
C2_RoundTrip ==
  find_items_node(doc).ok =>
    /\ decode_project(doc).ok
    /\ Unwrap(decode_project(doc).val) = index

\* C3: insert is all-or-nothing: a with_item call that returns an error, for
\* any reason, leaves the document and the index as they were.
C3_InsertAllOrNothing ==
  [][(ret'.op = "with_item" /\ Failed(ret')) => (index' = index /\ doc' = doc)]_vars

\* the number of edits of `updates` that succeed before the first one fails
SucceededEdits(ix, d, id, updates) ==
  MaxOf({n \in 0..Len(updates) :
           \A m \in 0..n : with_updated_item(ix, d, id, SubSeq(updates, 1, m)).ret.kind = "Ok"})

\* C4: when edit k of a with_updated_item call fails after edits 1..k-1
\* succeeded, the document and the index both reflect exactly edits 1..k-1:
\* they are what the call with only those edits leaves.
C4_FailedUpdateKeepsSucceededEdits ==
  [][\A id \in Ids, updates \in UpdateLists :
       (ret'.op = OP_UPDATE /\ Failed(ret') /\ id \in DOMAIN index /\ WithUpdatedItem(id, updates)) =>
         LET k1 == SucceededEdits(index, doc, id, updates)
             done == with_updated_item(index, doc, id, SubSeq(updates, 1, k1))
         IN index' = done.index /\ doc' = done.doc]_vars

\* C5: cycle rejection. In every state the call
\* with_updated_item(a, [Parent(Some(dd))]), where a occurs on the ancestor
\* chain of dd, returns the invalid-operation error "has a cycle" and writes
\* nothing to the document or the index.
C5_CycleRejected ==
  \A a \in Ids, dd \in Ids :
    IsDescendant(index, dd, a) =>
      LET r == with_updated_item(index, doc, a, <<UpdParent(Some(dd))>>)
      IN /\ r.ret.kind = "InvalidOperation"
         /\ r.ret.msg = "has a cycle"
         /\ r.index = index
         /\ r.doc = doc

\* a cycle was rejected: the last call tried to put an item under one of its
\* proper descendants
C5_Witness ==
  /\ ret.op = OP_UPDATE
  /\ ret.kind = "InvalidOperation"
  /\ ret.msg = "has a cycle"
  /\ \E a \in DOMAIN index : a # ret.key /\ IsDescendant(index, ret.key, a)

\* C6 as stated: after the first five calls of the tree test (insert a, b
\* under a, c under b; delete c; clear the parent of b) list_children(None)
\* has length 2, and the re-parent of a to b that follows fails with a cycle
\* error.
C6_ReparentFailsWithCycle ==
  [][(script = 5 /\ script' = 6) =>
       /\ Cardinality(collect_children(index, None)) = 2
       /\ ret'.kind = "InvalidOperation"
       /\ ret'.msg = "has a cycle"]_vars

\* C6 amended: after the first five calls list_children(None) has length 2,
\* and the re-parent of a to b that follows succeeds (b is no longer below
\* a): a is then the only child of b and list_children(None) has length 1.
C6_ReparentSucceeds ==
  [][(script = 5 /\ script' = 6) =>
       /\ Cardinality(collect_children(index, None)) = 2
       /\ ret'.kind = "Ok"
       /\ index'["a"].parent = Some("b")
       /\ collect_children(index', Some("b")) = {"a"}
       /\ Cardinality(collect_children(index', None)) = 1]_vars

\* the six calls of the tree test have been made
C6_Witness == script = 6 /\ ret.op = OP_UPDATE

\* C7: in every state, after successful and failing calls alike, every item
\* of the index whose parent is set names a key of the index.
C7_ParentExists ==
  \A k \in DOMAIN index : IsSome(index[k].parent) => Unwrap(index[k].parent) \in DOMAIN index

\* an item was deleted, or a deletion refused, while parent links remain
C7_Witness ==
  /\ ret.op = "without_item"
  /\ \E k \in DOMAIN index : IsSome(index[k].parent) /\ Unwrap(index[k].parent) # k

\* C8: uniqueness. In every state with_item with an id already in the index
\* fails with an invalid-field error and changes neither the index (the
\* existing item keeps all its fields) nor the document.
C8_DuplicateIdRejected ==
  \A item \in Items :
    item.id \in DOMAIN index =>
      LET r == with_item(index, doc, item)
      IN /\ r.ret.kind = "InvalidField"
         /\ r.index = index
         /\ r.doc = doc

\* a duplicate id was rejected
C8_Witness ==
  /\ ret.op = "with_item"
  /\ ret.kind = "InvalidField"
  /\ ret.msg = "duplicate key"
  /\ index # <<>>

\* C9: in every state with_item with a parent that is not a key of the index
\* (the id of the new item included) fails with an invalid-field error and
\* changes neither the document nor the index.
C9_DanglingParentRejected ==
  \A item \in Items :
    (IsSome(item.parent) /\ Unwrap(item.parent) \notin DOMAIN index) =>
      LET r == with_item(index, doc, item)
      IN /\ r.ret.kind = "InvalidField"
         /\ r.index = index
         /\ r.doc = doc

\* a dangling parent was rejected
C9_Witness ==
  /\ ret.op = "with_item"
  /\ ret.kind = "InvalidField"
  /\ ret.key = DOC_ITEM_PARENT_NODE
  /\ ret.msg = "does not exist"

\* C10: in every state without_item(id) on an item that some index item names
\* as parent fails with an invalid-operation error and removes nothing; on
\* an existing item without children it succeeds and removes exactly id from
\* the items map of the document and from the index.
C10_DeleteBlockedByChildren ==
  \A id \in DOMAIN index :
    LET r == without_item(index, doc, id)
    IN IF ChildrenOf(index, id) # {}
       THEN /\ r.ret.kind = "InvalidOperation"
            /\ r.index = index
            /\ r.doc = doc
       ELSE /\ r.ret.kind = "Ok"
            /\ DOMAIN r.index = DOMAIN index \ {id}
            /\ \A k \in DOMAIN r.index : r.index[k] = index[k]
            /\ DOMAIN ItemsOf(r.doc) = DOMAIN ItemsOf(doc) \ {id}
            /\ \A k \in DOMAIN ItemsOf(r.doc) : ItemsOf(r.doc)[k] = ItemsOf(doc)[k]
            /\ DOMAIN r.doc = DOMAIN doc

\* a deletion was refused because the item has a child
C10_Witness ==
  /\ ret.op = "without_item"
  /\ ret.kind = "InvalidOperation"
  /\ ret.msg = "has children"
  /\ ChildrenOf(index, ret.key) # {}

\* the content node of item id in the document, as an Option
ContentNode(d, id) ==
  IF find_items_node(d).ok /\ id \in DOMAIN ItemsOf(d) /\ ItemsOf(d)[id].kind = "map"
  THEN get(ItemsOf(d)[id].v, DOC_ITEM_CONTENT_NODE)
  ELSE None

\* the item is text-typed and the text node of the document holds its content
IsTextItem(ix, d, id) ==
  /\ id \in DOMAIN ix
  /\ starts_with(ix[id].content_type, CONTENT_TYPE_TEXT_PREFIX)
  /\ ContentNode(d, id) = Some(TextVal(ix[id].content))

\* C11: minimal text diff. For every text-typed item whose text node holds
\* the old content, and every new text, a Content edit that keeps the content
\* type and succeeds leaves the text node of the document equal to the new
\* text, on the splice path and on the full-replacement path alike.
C11_ContentEditWritesNew ==
  \A id \in ContentIds, new \in Texts :
    IsTextItem(index, doc, id) =>
      LET r == with_updated_item(index, doc, id, <<UpdContent(index[id].content_type, new)>>)
      IN r.ret.kind = "Ok" => ContentNode(r.doc, id) = Some(TextVal(new))

\* where the plain scan from the front, one byte at a time, stops: the first
\* k bytes agree, and either a slice ends there or the next bytes differ
naive_prefix(a, b) ==
  CHOOSE k \in 0..Min(Len(a), Len(b)) :
    /\ SubSeq(a, 1, k) = SubSeq(b, 1, k)
    /\ (k = Min(Len(a), Len(b)) \/ a[k + 1] # b[k + 1])

\* the slice read from the back
Reverse(a) == [i \in 1..Len(a) |-> a[Len(a) + 1 - i]]

\* the plain scan from the back, one byte at a time
naive_suffix(a, b) == naive_prefix(Reverse(a), Reverse(b))

IsPrefixOf(a, b) == Len(a) <= Len(b) /\ SubSeq(b, 1, Len(a)) = a

IsSuffixOf(a, b) == Len(a) <= Len(b) /\ SubSeq(b, Len(b) - Len(a) + 1, Len(b)) = a

\* C12: the block-then-byte scans agree with the plain scans: what
\* common_prefix(a, b) returned is the length of the longest common leading
\* run, what common_suffix(a, b) returned is the length of the longest common
\* trailing run, and it is len(a) when a is a prefix (a suffix) of b.
C12_ChunkedEqualsNaive ==
  /\ result.fn = "common_prefix" =>
       /\ result.out = naive_prefix(args.a, args.b)
       /\ IsPrefixOf(args.a, args.b) => result.out = Len(args.a)
  /\ result.fn = "common_suffix" =>
       /\ result.out = naive_suffix(args.a, args.b)
       /\ IsSuffixOf(args.a, args.b) => result.out = Len(args.a)

\* common_suffix went through a whole block and then stopped at a byte
\* inside the next one, on two slices of different lengths
C12_Witness ==
  /\ result.fn = "common_suffix"
  /\ Len(args.a) # Len(args.b)
  /\ result.out >= BLOCK
  /\ result.out < Min(Len(args.a), Len(args.b))

\* C13: what list_children(p) returned is sorted by rank descending and,
\* among equal ranks, earlier time first: for every adjacent pair (x, y),
\* x.rank > y.rank, or x.rank = y.rank and x.at <= y.at.
C13_ListChildrenSorted ==
  result.fn = "list_children" =>
    \A i \in 1..(Len(result.out) - 1) :
      \/ result.out[i].rank > result.out[i + 1].rank
      \/ /\ result.out[i].rank = result.out[i + 1].rank
         /\ result.out[i].at <= result.out[i + 1].at

\* three children were listed, the sort moved them, a higher rank came
\* first and an earlier time broke the tie of the other two
C13_Witness ==
  /\ result.fn = "list_children"
  /\ Len(result.out) = 3
  /\ args.order # [i \in 1..3 |-> result.out[i].id]
  /\ result.out[1].rank > result.out[2].rank
  /\ result.out[2].rank = result.out[3].rank
  /\ result.out[2].at < result.out[3].at

\* C14: every with_item, without_item and with_updated_item call made in a
\* state reached through the public operations terminates, with success or
\* with an error: the parent-chain walk of a Set-parent edit always ends.
C14_EveryCallTerminates == ret.kind # "Diverges"

\* the content node of every item of the document is a text node if the
\* content type of the item starts with "text/", and a byte blob otherwise
SchemaHolds(d) ==
  find_items_node(d).ok =>
    \A id \in DOMAIN ItemsOf(d) :
      LET node == ItemsOf(d)[id].v
      IN (DOC_ITEM_CONTENT_TYPE_NODE \in DOMAIN node /\ DOC_ITEM_CONTENT_NODE \in DOMAIN node) =>
           IF starts_with(node[DOC_ITEM_CONTENT_TYPE_NODE].v, CONTENT_TYPE_TEXT_PREFIX)
           THEN node[DOC_ITEM_CONTENT_NODE].kind = "text"
           ELSE node[DOC_ITEM_CONTENT_NODE].kind = "bytes"

\* C15: document schema. A successful with_item call and a successful
\* Content edit, made on a document in which every content node has the
\* shape its content type asks for, leave such a document (also an edit
\* that changes only the content type and keeps the bytes).
C15_ContentShapeFollowsType ==
  SchemaHolds(doc) =>
    /\ \A item \in ContentItems :
         LET r == with_item(index, doc, item)
         IN r.ret.kind = "Ok" => SchemaHolds(r.doc)
    /\ \A id \in ContentIds, u \in ContentEdits :
         LET r == with_updated_item(index, doc, id, <<u>>)
         IN r.ret.kind = "Ok" => SchemaHolds(r.doc)

\* the getters of the value codec
Getters == {"decode_string", "decode_bool", "decode_i64", "decode_timestamp", "decode_content"}

\* the kinds of value a getter decodes
ExpectedKinds(fn) ==
  CASE fn = "decode_string" -> {"str"}
    [] fn = "decode_bool" -> {"bool"}
    [] fn = "decode_i64" -> {"int"}
    [] fn = "decode_timestamp" -> {"timestamp"}
    [] fn = "decode_content" -> {"text", "bytes"}

\* the name of the expected type in the error of a getter
ExpectedName(fn) ==
  CASE fn = "decode_string" -> "string"
    [] fn = "decode_bool" -> "bool"
    [] fn = "decode_i64" -> "i64"
    [] fn = "decode_timestamp" -> "timestamp"
    [] fn = "decode_content" -> "text"

\* C16: what a getter returned for a key that is present but holds a value
\* of another shape than the getter expects (another scalar kind, or a map,
\* list or text object) is the incorrect-type error naming the key and the
\* expected type, never 'no value'.
C16_WrongShapeIsTypeError ==
  (/\ result.fn \in Getters
   /\ args.k \in DOMAIN args.node
   /\ args.node[args.k].kind \notin ExpectedKinds(result.fn)) =>
    result.out = Err(AuError("IncorrectType", args.k, ExpectedName(result.fn)))

\* C17: what a getter returned for a key that is absent from the node is
\* 'no value', Ok(None), and never an error.
C17_MissingKeyIsNone ==
  (result.fn \in Getters /\ args.k \notin DOMAIN args.node) => result.out = Ok(None)

\* the timestamp getter was asked for a key that is absent from a node that
\* holds another key
C17_Witness ==
  /\ result.fn = "decode_timestamp"
  /\ args.k \notin DOMAIN args.node
  /\ args.node # <<>>
  /\ result.out = Ok(None)

\* the items map of a document that has one
SourceItems(source) == Unwrap(find_items_node(source).val)

\* the keys of the items map that do not decode
BadKeys(source) == {k \in DOMAIN SourceItems(source) : ~decode_item(SourceItems(source), k).ok}

\* C18: reconstruction is all-or-nothing. On a document with an items map,
\* if any key fails to decode, what decode_project returned is an error and
\* no Project, and the error is a nested error that names the items
\* collection and carries the error of a key that fails, which names that
\* key; if every key decodes, it is a Project with exactly one item per key
\* of the items map, the item decoded from that key.
C18_ReconstructionAllOrNothing ==
  (result.fn = "decode_project" /\ find_items_node(args.source).ok) =>
    IF BadKeys(args.source) # {}
    THEN /\ ~result.out.ok
         /\ result.out.val = None
         /\ Unwrap(result.out.err).kind = "NestedError"
         /\ Unwrap(result.out.err).key = DOC_ITEMS_NODE
         /\ \E k \in BadKeys(args.source) :
              /\ Unwrap(Unwrap(result.out.err).inner).key = k
              /\ Unwrap(result.out.err).inner = decode_item(SourceItems(args.source), k).err
    ELSE /\ result.out.ok
         /\ DOMAIN Unwrap(result.out.val) = DOMAIN SourceItems(args.source)
         /\ \A k \in DOMAIN SourceItems(args.source) :
              /\ Unwrap(result.out.val)[k].id = k
              /\ Some(Unwrap(result.out.val)[k]) = Unwrap(decode_item(SourceItems(args.source), k).val)

\* decode_project failed on an items map with two keys of which one decodes
\* and the other does not
C18_Witness ==
  /\ result.fn = "decode_project"
  /\ find_items_node(args.source).ok
  /\ ~result.out.ok
  /\ Cardinality(DOMAIN SourceItems(args.source)) = 2
  /\ Cardinality(BadKeys(args.source)) = 1

\* C19: what decode_project returned on a document whose root has no items
\* key is the not-found error for "items"; on a document whose items value
\* is present but no map, an incorrect-type error for "items"; on a document
\* with an empty items map, an empty Project.
C19_ItemsCollectionShapes ==
  result.fn = "decode_project" =>
    /\ DOC_ITEMS_NODE \notin DOMAIN args.source =>
         result.out = Err(AuError("NoSuchKey", DOC_ITEMS_NODE, ""))
    /\ (DOC_ITEMS_NODE \in DOMAIN args.source /\ args.source[DOC_ITEMS_NODE].kind # "map") =>
         /\ ~result.out.ok
         /\ Unwrap(result.out.err).kind = "IncorrectType"
         /\ Unwrap(result.out.err).key = DOC_ITEMS_NODE
    /\ args.source = (DOC_ITEMS_NODE :> MapVal(<<>>)) =>
         /\ result.out.ok
         /\ Unwrap(result.out.val) = <<>>

\* decode_project was applied to a document whose items is a list
C19_Witness ==
  /\ result.fn = "decode_project"
  /\ DOC_ITEMS_NODE \in DOMAIN args.source
  /\ args.source[DOC_ITEMS_NODE].kind = "list"
  /\ ~result.out.ok

\* the required fields in the order in which decode_item_inner reads them
RequiredOrder == <<DOC_ITEM_AT_NODE, DOC_ITEM_CONTENT_NODE, DOC_ITEM_CONTENT_TYPE_NODE>>

\* field f of the node decodes to a value
DecodesToValue(node, f) ==
  CASE f = DOC_ITEM_AT_NODE -> Required(decode_timestamp(node, f), f).ok
    [] f = DOC_ITEM_CONTENT_NODE -> Required(decode_content(node, f), f).ok
    [] OTHER -> Required(decode_string(node, f), f).ok

\* the node without its keys outside the schema
SchemaPart(node) == [f \in DOMAIN node \cap (RequiredFields \cup OptionalFields) |-> node[f]]

EditApplied(item, u) ==
  CASE u.t = "Parent" -> [item EXCEPT !.parent = u.parent]
    [] u.t = "Rank" -> [item EXCEPT !.rank = u.rank]
    [] u.t = "Class" -> [item EXCEPT !.class = u.class]
    [] OTHER -> [item EXCEPT !.content_type = u.content_type, !.content = u.content]

RECURSIVE EditsApplied(_, _)
\* the edits applied in list order: a later edit of a field overrides an
\* earlier one
EditsApplied(item, us) ==
  IF us = <<>> THEN item ELSE EditsApplied(EditApplied(item, Head(us)), Tail(us))

\* the document node of id reads back as the index item of id
NodeMirrorsItem(d, ix, id) ==
  /\ id \in DOMAIN ix
  /\ find_items_node(d).ok
  /\ decode_item(Unwrap(find_items_node(d).val), id) = Ok(Some(ix[id]))

\* C21: after a successful with_updated_item(id, edits), on an item whose
\* document node mirrors it, the index item of id is the previous item with
\* the edits applied in list order, and the document node of id holds the
\* same values.
C21_EditsApplyInOrder ==
  \A id \in EditedIds, us \in FieldEditLists :
    LET r == with_updated_item(index, doc, id, us)
    IN (NodeMirrorsItem(doc, index, id) /\ r.ret.kind = "Ok")
         => /\ r.index[id] = EditsApplied(index[id], us)
            /\ NodeMirrorsItem(r.doc, r.index, id)

\* C22: a Content(content_type, bytes) edit whose bytes are the current
\* content of the item adds no operation to the 'content' node and leaves the
\* node as it is; if the content type is the current one too, the edit adds
\* no operation at all and the document is unchanged.
C22_SameContentWritesNothing ==
  \A id \in DOMAIN index, ct \in ContentTypes :
    LET r == with_updated_item(index, doc, id, <<UpdContent(ct, index[id].content)>>)
        w == with_updated_content_writes(index, doc, id, ct, index[id].content)
    IN /\ DOC_ITEM_CONTENT_NODE \notin w
       /\ ContentNode(r.doc, id) = ContentNode(doc, id)
       /\ ct = index[id].content_type => (w = {} /\ r.doc = doc)

\* a Content edit with the bytes of the item has changed the content type of
\* a text item to a binary one, and the text node is still there
C22_Witness ==
  /\ ret.op = OP_UPDATE
  /\ ret.kind = "Ok"
  /\ \E id \in DOMAIN index :
       /\ index[id].content_type = CONTENT_TYPE_BINARY
       /\ index[id].content # <<>>
       /\ ContentNode(doc, id) = Some(TextVal(index[id].content))

\* C23: from a committed insert on, every successful content update that
\* changes the content of the item to a value different from the current one,
\* followed by a commit, adds one change record to the history of the
\* document (so k such updates leave k + 1 records: no commit is empty).
C23_EachContentUpdateIsAChange ==
  [][(/\ ret'.op = OP_UPDATE
      /\ ret'.kind = "Ok"
      /\ \E id \in DOMAIN index \cap DOMAIN index' : index'[id].content # index[id].content)
       => changes' = changes + 1]_vars

\* C24: what has_children(Some(p)) returned is true exactly when some index
\* item has parent p, and what has_children(None) returned is true exactly
\* when some index item has no parent: false on an empty Project, true as
\* soon as there is a root-level item.
C24_HasChildrenExact ==
  result.fn = "has_children" =>
    /\ args.parent # None =>
         (result.out <=> \E k \in DOMAIN index : index[k].parent = Some(Unwrap(args.parent)))
    /\ args.parent = None =>
         (result.out <=> \E k \in DOMAIN index : index[k].parent = None)
    /\ (args.parent = None /\ index = <<>>) => ~result.out

\* has_children(None) returned true on a Project whose only root-level item
\* has a child
C24_Witness ==
  /\ result.fn = "has_children"
  /\ args.parent = None
  /\ result.out
  /\ Cardinality({k \in DOMAIN index : index[k].parent = None}) = 1
  /\ Cardinality(DOMAIN index) > 1

\* C25: the timestamp getter never panics: on a key that holds a document
\* timestamp of any millisecond value, negative ones included, what it
\* returned is the instant that many milliseconds from 1970 or the
\* incorrect-type error that names the key and "timestamp".
C25_TimestampNeverPanics ==
  result.fn = "decode_timestamp" =>
    /\ result.out.ok \/ Unwrap(result.out.err).kind # "Panic"
    /\ (args.k \in DOMAIN args.node /\ args.node[args.k].kind = "timestamp") =>
         \/ result.out = Ok(Some(args.node[args.k].v * NANOS_PER_MILLI))
         \/ result.out = Err(AuError("IncorrectType", args.k, "timestamp"))

\* the getter returned the incorrect-type error for a timestamp: one before
\* 1970, which is out of range when read as unsigned
C25_Witness ==
  /\ result.fn = "decode_timestamp"
  /\ args.k \in DOMAIN args.node
  /\ args.node[args.k].kind = "timestamp"
  /\ args.node[args.k].v < 0
  /\ result.out = Err(AuError("IncorrectType", args.k, "timestamp"))

\* the lists of edits that leave room for one more edit
ShorterUpdateLists == {us \in UpdateLists : Len(us) < MaxEdits}

\* C26: a Set-parent edit to an id x that is not in the index fails with the
\* not-found error of x and writes nothing: the document is as the edits
\* before it left it, and the index is unchanged. with_updated_item on an id
\* that is not in the index fails with the not-found error of that id and
\* changes neither the document nor the index.
C26_UnknownParentOrItemNotFound ==
  /\ \A id \in DOMAIN index, x \in Ids \ DOMAIN index, us \in ShorterUpdateLists :
       LET before == with_updated_item(index, doc, id, us)
           r == with_updated_item(index, doc, id, Append(us, UpdParent(Some(x))))
       IN before.ret.kind = "Ok" =>
            /\ r.ret = RetErr(OP_UPDATE, "NoSuchKey", x, "")
            /\ r.doc = before.doc
            /\ r.index = index
  /\ \A id \in Ids \ DOMAIN index, us \in UpdateLists :
       LET r == with_updated_item(index, doc, id, us)
       IN /\ r.ret = RetErr(OP_UPDATE, "NoSuchKey", id, "")
          /\ r.doc = doc
          /\ r.index = index

\* a with_updated_item call has failed with the not-found error of an id
\* that is not in the index, on a Project that holds the other two ids
C26_Witness ==
  /\ ret.op = OP_UPDATE
  /\ ret.kind = "NoSuchKey"
  /\ ret.key \in Ids
  /\ DOMAIN index = Ids \ {ret.key}

\* the item node of id in the document has the key
NodeHasKey(d, id, key) ==
  /\ find_items_node(d).ok
  /\ id \in DOMAIN ItemsOf(d)
  /\ ItemsOf(d)[id].kind = "map"
  /\ key \in DOMAIN ItemsOf(d)[id].v

\* C27: a Clear-parent edit on an item whose parent is set removes the
\* 'parent' key of the document node and sets parent = None in the index; on
\* an item whose parent is unset it leaves document and item unchanged. In
\* the document the 'parent' key is present exactly when the parent of the
\* index item is set, and the 'class' key exactly when its class is set.
C27_ClearParentAndOptionalKeys ==
  \A id \in DOMAIN index :
    LET r == with_updated_item(index, doc, id, <<UpdParent(None)>>)
    IN /\ IsSome(index[id].parent) =>
            /\ r.ret.kind = "Ok"
            /\ ~NodeHasKey(r.doc, id, DOC_ITEM_PARENT_NODE)
            /\ r.index[id].parent = None
       /\ index[id].parent = None => (r.doc = doc /\ r.index = index)
       /\ NodeHasKey(doc, id, DOC_ITEM_PARENT_NODE) <=> IsSome(index[id].parent)
       /\ NodeHasKey(doc, id, DOC_ITEM_CLASS_NODE) <=> IsSome(index[id].class)

\* C28: every failing without_item call leaves the document and the index
\* unchanged; on an id that is not in the index it fails with the not-found
\* error of that id, also when items of the index name the id as their
\* parent (the lookup comes before the has-children check).
C28_FailedRemovalChangesNothing ==
  \A id \in Ids :
    LET r == without_item(index, doc, id)
    IN /\ r.ret.kind # "Ok" => (r.index = index /\ r.doc = doc)
       /\ id \notin DOMAIN index => r.ret = RetErr("without_item", "NoSuchKey", id, "")

\* without_item has failed with the not-found error of an id that is not in
\* the index and is the parent of an item of the index
C28_Witness ==
  /\ ret.op = "without_item"
  /\ ret.kind = "NoSuchKey"
  /\ ret.key \notin DOMAIN index
  /\ has_children(index, Some(ret.key))

\* a Project reconstructed from the document gives the children lists of ix
SameChildrenLists(d, ix) ==
  /\ decode_project(d).ok
  /\ \A p \in OptIds :
       collect_children(Unwrap(decode_project(d).val), p) = collect_children(ix, p)

\* C29: on a Project whose document gives its children lists, re-parenting
\* an item a under an item b of the index that is neither a nor a descendant
\* of a succeeds; afterwards a is among the children of b and not among the
\* children of its old parent, and a Project reconstructed from the document
\* gives the same children lists as the index.
C29_ReparentUnderNonDescendant ==
  \A a \in DOMAIN index, b \in DOMAIN index :
    (b # a /\ ~IsDescendant(index, b, a) /\ SameChildrenLists(doc, index)) =>
      LET r == with_updated_item(index, doc, a, <<UpdParent(Some(b))>>)
      IN /\ r.ret.kind = "Ok"
         /\ a \in collect_children(r.index, Some(b))
         /\ index[a].parent # Some(b) => a \notin collect_children(r.index, index[a].parent)
         /\ SameChildrenLists(r.doc, r.index)

\* C30: a successful Content(t, b) edit with b different from the current
\* content leaves the decoded content of the item equal to b, whatever the
\* content node was before and whatever the new type is: a text node that
\* holds b for a text type, a byte blob that holds b for any other type.
C30_ContentEditDecodesToNew ==
  \A id \in DOMAIN index, u \in ContentEdits :
    LET r == with_updated_item(index, doc, id, <<u>>)
    IN (u.content # index[id].content /\ r.ret.kind = "Ok") =>
         /\ decode_content(ItemsOf(r.doc)[id].v, DOC_ITEM_CONTENT_NODE) = Ok(Some(u.content))
         /\ ContentNode(r.doc, id) =
              IF starts_with(u.content_type, CONTENT_TYPE_TEXT_PREFIX)
              THEN Some(TextVal(u.content))
              ELSE Some(BytesVal(u.content))

\* C31: a snapshot of an item obtained through get_item or list_children
\* keeps all its field values through every later insert, update and delete:
\* what is read through an Rc the caller holds is what was read through it
\* when it was handed out, and the index reads its own items through its own
\* Rcs.
C31_SnapshotsKeepTheirValues ==
  /\ \A i \in 1..Len(result.out) :
       /\ result.out[i].rc \in DOMAIN heap.cells
       /\ heap.cells[result.out[i].rc] = result.out[i].seen
  /\ DOMAIN heap.rc = DOMAIN index
  /\ \A k \in DOMAIN index : heap.cells[heap.rc[k]] = index[k]

\* the caller holds the Rc of an item that an update has replaced in the
\* index since: the index item of that id has other field values
C31_Witness ==
  /\ result.fn = "get_item"
  /\ Len(result.out) = 1
  /\ ret.op = OP_UPDATE
  /\ ret.kind = "Ok"
  /\ result.out[1].seen.id \in DOMAIN index
  /\ index[result.out[1].seen.id] # result.out[1].seen
  /\ heap.rc[result.out[1].seen.id] # result.out[1].rc

\* C32: whenever with_updated_item returns an error, the index is exactly
\* as before the call: get_item and list_children, which read the index,
\* show none of the edits of that call, also not those that succeeded and
\* were written to the document.
C32_FailedUpdateLeavesIndex ==
  [][(ret'.op = OP_UPDATE /\ Failed(ret')) => index' = index]_vars

\* with_updated_item has returned an error after an edit of the call wrote
\* the class to the document: the document node has a class and the index
\* item has none
C32_Witness ==
  /\ ret.op = OP_UPDATE
  /\ Failed(ret)
  /\ IdPool[1] \in DOMAIN index
  /\ NodeHasKey(doc, IdPool[1], DOC_ITEM_CLASS_NODE)
  /\ index[IdPool[1]].class = None

\* the entries of ix other than id are in after with the same field values
OthersKept(ix, after, id) ==
  \A k \in DOMAIN ix \ {id} : k \in DOMAIN after /\ after[k] = ix[k]

C34_KeysAreIds ==
  \A k \in DOMAIN index : k # "" /\ index[k].id = k

\* with_item has rejected an item with an empty id on a Project that holds
\* an item with a parent
C34_Witness ==
  /\ ret.op = "with_item"
  /\ ret = RetErr("with_item", "InvalidField", DOC_ITEM_ID_NODE, "empty")
  /\ \E k \in DOMAIN index : IsSome(index[k].parent)

\* C35: the sibling comparator of list_children is a consistent order: for
\* any two items a and b that a call of list_children sorts,
\* compare(a, b) = Less if and only if compare(b, a) = Greater, and two items
\* with different ranks never compare as Equal.
C35_ComparatorConsistent ==
  result.fn = "list_children" =>
    \A i, j \in 1..Len(result.out) :
      LET a == result.out[i]
          b == result.out[j]
      IN /\ sort_by_compare(a, b) = "Less" <=> sort_by_compare(b, a) = "Greater"
         /\ a.rank # b.rank => sort_by_compare(a, b) # "Equal"

\* C36: for every parent argument p, list_children(p) holds each index item
\* whose parent equals p exactly once and no other item (None matches the
\* items without a parent), and has_children(p) is true if and only if
\* list_children(p) is non-empty.
C36_ListHoldsTheChildren ==
  /\ result.fn = "list_children" =>
       /\ \A k \in DOMAIN index :
            index[k].parent = args.parent =>
              Cardinality({i \in 1..Len(result.out) : result.out[i] = index[k]}) = 1
       /\ \A i \in 1..Len(result.out) :
            \E k \in DOMAIN index : index[k] = result.out[i] /\ index[k].parent = args.parent
  /\ \A p \in OptIds :
       \A order \in IterOrders(collect_children(index, p)) :
         has_children(index, p) <=> list_children(index, p, order) # <<>>

\* list_children of an item has returned two children while the index holds
\* a third item that is no child of it
C36_Witness ==
  /\ result.fn = "list_children"
  /\ args.parent # None
  /\ Len(result.out) = 2
  /\ Cardinality(DOMAIN index) = 3

\* C37: from every reachable non-empty Project the Project can be emptied
\* with without_item calls alone: some item is deletable (without_item of it
\* succeeds, it has no children), and list_children(None) is non-empty, so
\* that every item is reached from a root-level item.
C37_CanBeEmptied ==
  index # <<>> =>
    /\ \E id \in DOMAIN index : without_item(index, doc, id).ret.kind = "Ok"
    /\ \A order \in IterOrders(collect_children(index, None)) :
         list_children(index, None, order) # <<>>

\* C38: the at timestamp survives the write/read pair: for every item
\* inserted with a timestamp that is a whole number of milliseconds, also
\* one before the Unix epoch, the timestamp getter decodes the value that
\* with_item wrote to the same instant, not to an error or another instant.
C38_AtSurvivesWriteAndRead ==
  \A k \in DOMAIN index :
    (index[k].at % NANOS_PER_MILLI = 0 /\ NodeHasKey(doc, k, DOC_ITEM_AT_NODE)) =>
      decode_timestamp(ItemsOf(doc)[k].v, DOC_ITEM_AT_NODE) = Ok(Some(index[k].at))

\* C39: for all byte sequences old and new, with prefix =
\* common_prefix(new, old) and suffix = common_suffix(new[prefix..],
\* old[prefix..]), prefix + suffix <= min(len(old), len(new)); hence the
\* delete length len(old) - prefix - suffix and the bounds of the slice
\* new[prefix..len(new) - suffix] never underflow or leave the content.
C39_PrefixAndSuffixFit ==
  result.fn = "content_diff" =>
    LET new == args.a
        old == args.b
        prefix == result.out.prefix
        suffix == result.out.suffix
    IN /\ prefix >= 0
       /\ suffix >= 0
       /\ prefix + suffix <= Min(Len(old), Len(new))
       /\ Len(old) - prefix - suffix >= 0
       /\ prefix <= Len(new) - suffix
       /\ Len(new) - suffix <= Len(new)

\* the lengths were computed of two contents of different lengths that share
\* bytes at both ends
C39_Witness ==
  /\ result.fn = "content_diff"
  /\ Len(args.a) # Len(args.b)
  /\ result.out.prefix > 0
  /\ result.out.suffix > 0

====
